---- MODULE Spec2Model ----
(***************************************************************************)
(* Verification model of the frame grabber of TacoJohnson/rust_components: *)
(*   - the HWORD codec            (src/shared/src/hword.rs)                *)
(*   - the frame sync engine      (src/framegrabber/src/frame_sync.rs)     *)
(*   - the capture pipeline       (src/framegrabber/src/capture.rs)        *)
(*   - the frame decoder          (src/shared/src/frame.rs)                *)
(* An HWORD is kept as its 12 bytes (most significant first), so that      *)
(* parsing and field extraction are computed on the bytes as the code      *)
(* computes them on the 96-bit word.                                       *)
(***************************************************************************)
EXTENDS Integers, Sequences, FiniteSets, TLC

(***************************************************************************)
(* Program constants                                                       *)
(***************************************************************************)
HWORD_SIZE_BYTES == 12

HEADER_HWORDS_PER_FRAME == 110

IDLE_HWORD_PATTERN == <<253, 60, 75, 90, 105, 120, 135, 150, 165, 180, 195, 178>>

(***************************************************************************)
(* Bounds of the model                                                     *)
(***************************************************************************)
\* Idle HWORDs fed before the first frame of a stream.
MaxIdle == 2

\* Frames the instrument starts in one stream.
MaxCycles == 3

\* HWORDs of a stream that deviate from the well-formed script.
MaxDisturb == 1

\* Datagrams the instrument sends during one capture.
MaxPackets == 3

\* Capacity of the channel between receiver and writer (10,000 in start()),
\* scaled down so that the full queue is reached.
QueueCap == 1

\* Socket errors of one capture.
MaxRecvErrors == 1

\* Turns of the writer's chunking loop taken in one step.
DrainBatch == 16

\* Files of a session directory when the writer scans it.
MaxEntries == 3

(***************************************************************************)
(* Option<T>: None is <<>>, Some(v) is <<v>>                               *)
(***************************************************************************)
None == <<>>

Some(v) == <<v>>

IsSome(o) == o /= <<>>

Unwrap(o) == o[1]

(***************************************************************************)
(* HWORD codec (hword.rs)                                                  *)
(***************************************************************************)
\* ControlBits::from_u8: value & 0b111, then the tag of that value.
ControlBits_from_u8(value) ==
  LET v == value % 8 IN
  CASE v = 0 -> Some("Reserved0")
    [] v = 1 -> Some("Reserved1")
    [] v = 2 -> Some("FirstHeader")
    [] v = 3 -> Some("SubsequentHeader")
    [] v = 4 -> Some("FirstPixel")
    [] v = 5 -> Some("SubsequentPixel")
    [] v = 6 -> Some("Reserved6")
    [] v = 7 -> Some("Idle")
    [] OTHER -> None

\* `self as u128` of a ControlBits tag.
ControlBits_as_u8(c) ==
  CASE c = "Reserved0" -> 0
    [] c = "Reserved1" -> 1
    [] c = "FirstHeader" -> 2
    [] c = "SubsequentHeader" -> 3
    [] c = "FirstPixel" -> 4
    [] c = "SubsequentPixel" -> 5
    [] c = "Reserved6" -> 6
    [] c = "Idle" -> 7

is_header(c) == c \in {"FirstHeader", "SubsequentHeader"}

is_pixel(c) == c \in {"FirstPixel", "SubsequentPixel"}

is_frame_start(c) == c = "FirstHeader"

is_idle(c) == c = "Idle"

\* HWord::from_bytes. bytes[1] is the most significant byte (bits 95:88):
\* control = bits 95:93, parity = bit 92, remaining_bits = bits 91:88,
\* data[i] (0-based in the code, 1-based here) = bits 8i+7:8i = byte 11-i.
HWord_from_bytes(bytes) ==
  LET raw_control_bits == (bytes[1] \div 32) % 8
      control_bits == ControlBits_from_u8(raw_control_bits)
  IN IF ~IsSome(control_bits)
       THEN [ok |-> FALSE, err |-> "InvalidControlBits"]
       ELSE [ok |-> TRUE,
             hword |-> [control_bits |-> Unwrap(control_bits),
                        parity |-> ((bytes[1] \div 16) % 2) /= 0,
                        data |-> [i \in 1..11 |-> bytes[13 - i]],
                        remaining_bits |-> bytes[1] % 16]]

\* HWord::to_bytes without bits 91:88.
HWord_to_bytes_NoRemaining(h) ==
  [j \in 1..12 |->
     IF j = 1
       THEN ControlBits_as_u8(h.control_bits) * 32
            + (IF h.parity THEN 16 ELSE 0)
       ELSE h.data[13 - j]]

\* HWord::to_bytes
HWord_to_bytes(h) ==
  [j \in 1..12 |->
     IF j = 1
       THEN ControlBits_as_u8(h.control_bits) * 32
            + (IF h.parity THEN 16 ELSE 0) + h.remaining_bits
       ELSE h.data[13 - j]]

(***************************************************************************)
(* Frame sync engine (frame_sync.rs)                                       *)
(***************************************************************************)
\* is_idle_hword that takes every HWORD of control code 111 for the pattern.
is_idle_hword_AnyIdle(chunk) ==
  IF Len(chunk) /= 12 THEN FALSE
  ELSE (chunk[1] \div 32) % 8 = 7

\* FrameSyncEngine::is_idle_hword
is_idle_hword(chunk) ==
  IF Len(chunk) /= 12 THEN FALSE
  ELSE IF (chunk[1] \div 32) % 8 /= 7 THEN FALSE
  ELSE chunk = IDLE_HWORD_PATTERN

\* FrameSyncEngine::extract_header_index: (data >> 84) & 0x0F, the high
\* nibble of data byte 10 (bits 87:80).
extract_header_index(hword) ==
  IF ~is_header(hword.control_bits) THEN None
  ELSE Some((hword.data[11] \div 16) % 16)

\* FrameSyncEngine::extract_num_pixels: (data >> 32) & 0xFFFF, data bytes 4
\* (bits 39:32) and 5 (bits 47:40); 0 is read as 1.
extract_num_pixels(first_header_hword) ==
  IF ~is_frame_start(first_header_hword.control_bits) THEN None
  ELSE LET num_pixels == first_header_hword.data[5]
                         + 256 * first_header_hword.data[6]
       IN IF num_pixels > 0 THEN Some(num_pixels) ELSE Some(1)

\* FrameMode::expected_pixel_count
expected_pixel_count(mode) ==
  CASE mode.tag = "OnePointScan" -> 1
    [] mode.tag = "FivePointScan" -> 5
    [] mode.tag = "Imaging" -> mode.expected_pixels
    [] mode.tag = "Unknown" -> 1

\* The mode chosen from the pixel count in WaitingForFrame.
ModeOf(expected_pixels) ==
  IF expected_pixels = 1 THEN [tag |-> "OnePointScan"]
  ELSE IF expected_pixels = 5 THEN [tag |-> "FivePointScan"]
  ELSE [tag |-> "Imaging", expected_pixels |-> expected_pixels]

\* FrameSyncEngine::new
FrameSyncEngine_new ==
  [state |-> [tag |-> "WaitingForSync"],
   frame_buffer |-> <<>>,
   current_mode |-> [tag |-> "Unknown"],
   frames_completed |-> 0,
   sync_errors |-> 0,
   header_index_errors |-> 0]

Result(e, ret) == [e |-> e, ret |-> ret]

\* WaitingForFrameStep starting a frame on any header HWORD.
WaitingForFrameStep_AnyHeader(e, chunk, hword) ==
  IF is_header(hword.control_bits)
    THEN LET n == extract_num_pixels(hword)
             expected_pixels == IF IsSome(n) THEN Unwrap(n) ELSE 1
         IN Result([e EXCEPT !.frame_buffer = chunk,
                             !.current_mode = ModeOf(expected_pixels),
                             !.state = [tag |-> "CollectingHeader",
                                        count |-> 1,
                                        last_index |-> Some(0)]],
                   None)
    ELSE Result(e, None)

\* WaitingForFrameStep that starts a frame without clearing the buffer.
WaitingForFrameStep_KeepBuffer(e, chunk, hword) ==
  IF is_frame_start(hword.control_bits)
    THEN LET n == extract_num_pixels(hword)
             expected_pixels == IF IsSome(n) THEN Unwrap(n) ELSE 1
         IN Result([e EXCEPT !.frame_buffer = @ \o chunk,
                             !.current_mode = ModeOf(expected_pixels),
                             !.state = [tag |-> "CollectingHeader",
                                        count |-> 1,
                                        last_index |-> Some(0)]],
                   None)
    ELSE Result(e, None)

\* process_hword, state WaitingForFrame (frame_sync.rs 194-221)
WaitingForFrameStep(e, chunk, hword) ==
  IF is_frame_start(hword.control_bits)
    THEN LET n == extract_num_pixels(hword)
             expected_pixels == IF IsSome(n) THEN Unwrap(n) ELSE 1
         IN Result([e EXCEPT !.frame_buffer = chunk,
                             !.current_mode = ModeOf(expected_pixels),
                             !.state = [tag |-> "CollectingHeader",
                                        count |-> 1,
                                        last_index |-> Some(0)]],
                   None)
    ELSE Result(e, None)

\* The state after one more header HWORD (frame_sync.rs 238-251, 256-268).
AfterHeader(e, count, last_index) ==
  IF count + 1 >= HEADER_HWORDS_PER_FRAME
    THEN [tag |-> "CollectingPixels",
          header_count |-> count + 1,
          pixel_count |-> 0,
          expected_pixels |-> expected_pixel_count(e.current_mode)]
    ELSE [tag |-> "CollectingHeader",
          count |-> count + 1,
          last_index |-> last_index]

\* CollectingHeaderStep keeping the index it expected instead of the index
\* it received.
CollectingHeaderStep_KeepExpected(e, chunk, hword) ==
  LET count == e.state.count
      last_index == e.state.last_index
  IN
  IF is_header(hword.control_bits)
    THEN LET index == Unwrap(extract_header_index(hword))
             expected == (Unwrap(last_index) + 1) % 16
             mismatch == index /= expected /\ count < HEADER_HWORDS_PER_FRAME
         IN Result([e EXCEPT
                      !.header_index_errors = IF mismatch THEN @ + 1 ELSE @,
                      !.frame_buffer = @ \o chunk,
                      !.state = AfterHeader(e, count, Some(expected))],
                   None)
  ELSE IF is_pixel(hword.control_bits)
    THEN Result([e EXCEPT
                   !.frame_buffer = @ \o chunk,
                   !.state = [tag |-> "CollectingPixels",
                              header_count |-> count,
                              pixel_count |-> 1,
                              expected_pixels |->
                                 expected_pixel_count(e.current_mode)]],
                None)
  ELSE Result(e, None)

\* CollectingHeaderStep that gives the frame up on a header index mismatch.
CollectingHeaderStep_AbortOnGap(e, chunk, hword) ==
  LET count == e.state.count
      last_index == e.state.last_index
  IN
  IF is_header(hword.control_bits)
    THEN LET index == Unwrap(extract_header_index(hword))
             mismatch ==
               /\ IsSome(last_index)
               /\ index /= (Unwrap(last_index) + 1) % 16
               /\ count < HEADER_HWORDS_PER_FRAME
         IN IF mismatch
              THEN Result([e EXCEPT
                             !.header_index_errors = @ + 1,
                             !.state = [tag |-> "WaitingForFrame"]],
                          None)
              ELSE Result([e EXCEPT
                             !.frame_buffer = @ \o chunk,
                             !.state = AfterHeader(e, count, Some(index))],
                          None)
  ELSE IF is_pixel(hword.control_bits)
    THEN Result([e EXCEPT
                   !.frame_buffer = @ \o chunk,
                   !.state = [tag |-> "CollectingPixels",
                              header_count |-> count,
                              pixel_count |-> 1,
                              expected_pixels |->
                                 expected_pixel_count(e.current_mode)]],
                None)
  ELSE Result(e, None)

\* process_hword, state CollectingHeader (frame_sync.rs 223-281)
CollectingHeaderStep(e, chunk, hword) ==
  LET count == e.state.count
      last_index == e.state.last_index
  IN
  IF is_header(hword.control_bits)
    THEN LET oi == extract_header_index(hword) IN
         IF IsSome(oi)
           THEN LET index == Unwrap(oi)
                    mismatch ==
                      /\ IsSome(last_index)
                      /\ index /= (Unwrap(last_index) + 1) % 16
                      /\ count < HEADER_HWORDS_PER_FRAME
                IN Result([e EXCEPT
                             !.header_index_errors =
                                IF mismatch THEN @ + 1 ELSE @,
                             !.frame_buffer = @ \o chunk,
                             !.state = AfterHeader(e, count, Some(index))],
                          None)
           ELSE Result([e EXCEPT
                          !.frame_buffer = @ \o chunk,
                          !.state = AfterHeader(e, count, last_index)],
                       None)
  ELSE IF is_pixel(hword.control_bits)
    THEN Result([e EXCEPT
                   !.frame_buffer = @ \o chunk,
                   !.state = [tag |-> "CollectingPixels",
                              header_count |-> count,
                              pixel_count |-> 1,
                              expected_pixels |->
                                 expected_pixel_count(e.current_mode)]],
                None)
  ELSE Result(e, None)

\* CollectingPixelsStep completing the frame one pixel late
\* (pixel_count + 1 > expected_pixels).
CollectingPixelsStep_LateEmit(e, chunk, hword) ==
  LET header_count == e.state.header_count
      pixel_count == e.state.pixel_count
      expected_pixels == e.state.expected_pixels
  IN
  IF is_pixel(hword.control_bits)
    THEN IF pixel_count + 1 > expected_pixels
           THEN Result([e EXCEPT
                          !.frame_buffer = @ \o chunk,
                          !.frames_completed = @ + 1,
                          !.state = [tag |-> "WaitingForFrame"]],
                       Some(e.frame_buffer \o chunk))
           ELSE Result([e EXCEPT
                          !.frame_buffer = @ \o chunk,
                          !.state = [tag |-> "CollectingPixels",
                                     header_count |-> header_count,
                                     pixel_count |-> pixel_count + 1,
                                     expected_pixels |-> expected_pixels]],
                       None)
  ELSE IF is_frame_start(hword.control_bits)
    THEN Result([e EXCEPT
                   !.sync_errors = @ + 1,
                   !.frame_buffer = chunk,
                   !.state = [tag |-> "CollectingHeader",
                              count |-> 1,
                              last_index |-> Some(0)]],
                None)
  ELSE Result(e, None)

\* CollectingPixelsStep whose lost-tail branch appends the FirstHeader to the
\* buffer without clearing it.
CollectingPixelsStep_KeepTail(e, chunk, hword) ==
  LET header_count == e.state.header_count
      pixel_count == e.state.pixel_count
      expected_pixels == e.state.expected_pixels
  IN
  IF is_pixel(hword.control_bits)
    THEN IF pixel_count + 1 >= expected_pixels
           THEN Result([e EXCEPT
                          !.frame_buffer = @ \o chunk,
                          !.frames_completed = @ + 1,
                          !.state = [tag |-> "WaitingForFrame"]],
                       Some(e.frame_buffer \o chunk))
           ELSE Result([e EXCEPT
                          !.frame_buffer = @ \o chunk,
                          !.state = [tag |-> "CollectingPixels",
                                     header_count |-> header_count,
                                     pixel_count |-> pixel_count + 1,
                                     expected_pixels |-> expected_pixels]],
                       None)
  ELSE IF is_frame_start(hword.control_bits)
    THEN Result([e EXCEPT
                   !.sync_errors = @ + 1,
                   !.frame_buffer = @ \o chunk,
                   !.state = [tag |-> "CollectingHeader",
                              count |-> 1,
                              last_index |-> Some(0)]],
                None)
  ELSE Result(e, None)

\* CollectingPixelsStep returning the frame without its last pixel.
CollectingPixelsStep_EmitBeforeAppend(e, chunk, hword) ==
  LET header_count == e.state.header_count
      pixel_count == e.state.pixel_count
      expected_pixels == e.state.expected_pixels
  IN
  IF is_pixel(hword.control_bits)
    THEN IF pixel_count + 1 >= expected_pixels
           THEN Result([e EXCEPT
                          !.frame_buffer = @ \o chunk,
                          !.frames_completed = @ + 1,
                          !.state = [tag |-> "WaitingForFrame"]],
                       Some(e.frame_buffer))
           ELSE Result([e EXCEPT
                          !.frame_buffer = @ \o chunk,
                          !.state = [tag |-> "CollectingPixels",
                                     header_count |-> header_count,
                                     pixel_count |-> pixel_count + 1,
                                     expected_pixels |-> expected_pixels]],
                       None)
  ELSE IF is_frame_start(hword.control_bits)
    THEN Result([e EXCEPT
                   !.sync_errors = @ + 1,
                   !.frame_buffer = chunk,
                   !.state = [tag |-> "CollectingHeader",
                              count |-> 1,
                              last_index |-> Some(0)]],
                None)
  ELSE Result(e, None)

\* CollectingPixelsStep counting a sync error for every HWORD that is
\* neither a pixel nor a FirstHeader.
CollectingPixelsStep_CountStray(e, chunk, hword) ==
  LET header_count == e.state.header_count
      pixel_count == e.state.pixel_count
      expected_pixels == e.state.expected_pixels
  IN
  IF is_pixel(hword.control_bits)
    THEN IF pixel_count + 1 >= expected_pixels
           THEN Result([e EXCEPT
                          !.frame_buffer = @ \o chunk,
                          !.frames_completed = @ + 1,
                          !.state = [tag |-> "WaitingForFrame"]],
                       Some(e.frame_buffer \o chunk))
           ELSE Result([e EXCEPT
                          !.frame_buffer = @ \o chunk,
                          !.state = [tag |-> "CollectingPixels",
                                     header_count |-> header_count,
                                     pixel_count |-> pixel_count + 1,
                                     expected_pixels |-> expected_pixels]],
                       None)
  ELSE IF is_frame_start(hword.control_bits)
    THEN Result([e EXCEPT
                   !.sync_errors = @ + 1,
                   !.frame_buffer = chunk,
                   !.state = [tag |-> "CollectingHeader",
                              count |-> 1,
                              last_index |-> Some(0)]],
                None)
  ELSE Result([e EXCEPT !.sync_errors = @ + 1], None)

\* CollectingPixelsStep appending to the frame every HWORD that is neither
\* a pixel nor a FirstHeader.
CollectingPixelsStep_AppendOther(e, chunk, hword) ==
  LET header_count == e.state.header_count
      pixel_count == e.state.pixel_count
      expected_pixels == e.state.expected_pixels
  IN
  IF is_pixel(hword.control_bits)
    THEN IF pixel_count + 1 >= expected_pixels
           THEN Result([e EXCEPT
                          !.frame_buffer = @ \o chunk,
                          !.frames_completed = @ + 1,
                          !.state = [tag |-> "WaitingForFrame"]],
                       Some(e.frame_buffer \o chunk))
           ELSE Result([e EXCEPT
                          !.frame_buffer = @ \o chunk,
                          !.state = [tag |-> "CollectingPixels",
                                     header_count |-> header_count,
                                     pixel_count |-> pixel_count + 1,
                                     expected_pixels |-> expected_pixels]],
                       None)
  ELSE IF is_frame_start(hword.control_bits)
    THEN Result([e EXCEPT
                   !.sync_errors = @ + 1,
                   !.frame_buffer = chunk,
                   !.state = [tag |-> "CollectingHeader",
                              count |-> 1,
                              last_index |-> Some(0)]],
                None)
  ELSE Result([e EXCEPT !.frame_buffer = @ \o chunk], None)

\* process_hword, state CollectingPixels (frame_sync.rs 283-320)
CollectingPixelsStep(e, chunk, hword) ==
  LET header_count == e.state.header_count
      pixel_count == e.state.pixel_count
      expected_pixels == e.state.expected_pixels
  IN
  IF is_pixel(hword.control_bits)
    THEN IF pixel_count + 1 >= expected_pixels
           THEN Result([e EXCEPT
                          !.frame_buffer = @ \o chunk,
                          !.frames_completed = @ + 1,
                          !.state = [tag |-> "WaitingForFrame"]],
                       Some(e.frame_buffer \o chunk))
           ELSE Result([e EXCEPT
                          !.frame_buffer = @ \o chunk,
                          !.state = [tag |-> "CollectingPixels",
                                     header_count |-> header_count,
                                     pixel_count |-> pixel_count + 1,
                                     expected_pixels |-> expected_pixels]],
                       None)
  ELSE IF is_frame_start(hword.control_bits)
    THEN Result([e EXCEPT
                   !.sync_errors = @ + 1,
                   !.frame_buffer = chunk,
                   !.state = [tag |-> "CollectingHeader",
                              count |-> 1,
                              last_index |-> Some(0)]],
                None)
  ELSE Result(e, None)

\* FrameSyncEngine::process_hword (frame_sync.rs 167-328)
RECURSIVE process_hword(_, _)
process_hword(e, chunk) ==
  LET p == HWord_from_bytes(chunk) IN
  IF ~p.ok
    THEN Result([e EXCEPT !.sync_errors = @ + 1], None)
  ELSE
    LET hword == p.hword IN
    CASE e.state.tag = "WaitingForSync" ->
           IF is_idle_hword(chunk)
             THEN Result([e EXCEPT !.state = [tag |-> "WaitingForFrame"]], None)
           ELSE IF is_frame_start(hword.control_bits)
             THEN process_hword([e EXCEPT !.state = [tag |-> "WaitingForFrame"]],
                                chunk)
           ELSE Result(e, None)
      [] e.state.tag = "WaitingForFrame" -> WaitingForFrameStep(e, chunk, hword)
      [] e.state.tag = "CollectingHeader" -> CollectingHeaderStep(e, chunk, hword)
      [] e.state.tag = "CollectingPixels" -> CollectingPixelsStep(e, chunk, hword)
      [] e.state.tag = "FrameComplete" -> Result(e, None)

\* FrameSyncEngine::current_buffer
current_buffer(e) == e.frame_buffer

\* FrameSyncEngine::stats
stats(e) == <<e.frames_completed, e.sync_errors, e.header_index_errors>>

(***************************************************************************)
(* The instrument: HWORDs as put on the wire                               *)
(***************************************************************************)
\* Number of one bits of a byte (u128::count_ones, byte by byte).
CountOnes(b) ==
  (b % 2) + ((b \div 2) % 2) + ((b \div 4) % 2) + ((b \div 8) % 2)
  + ((b \div 16) % 2) + ((b \div 32) % 2) + ((b \div 64) % 2) + ((b \div 128) % 2)

\* The 12 big-endian bytes of the HWORD with the given control code, header
\* index (bits 87:84), register 2 (bits 47:32) and two low payload bytes
\* (bits 15:8 and 7:0), with the odd parity bit (bit 92) computed over the word
\* as generate_synthetic_frame does.
MkHWord(control, index, reg2, lo1, lo0) ==
  LET body == <<control * 32, index * 16, 0, 0, 0, 0,
                reg2 \div 256, reg2 % 256, 0, 0, lo1, lo0>>
      ones == CountOnes(body[1]) + CountOnes(body[2]) + CountOnes(body[7])
              + CountOnes(body[8]) + CountOnes(body[11]) + CountOnes(body[12])
      parity_bit == IF ones % 2 = 0 THEN 1 ELSE 0
  IN [body EXCEPT ![1] = @ + parity_bit * 16]

\* The k-th HWORD (k = 1 .. 110 + n) of the well-formed frame number tag that
\* announces n pixels: FirstHeader with index 0 and NUM_PIXELS_RW = n, 109
\* SubsequentHeader with index (k - 1) mod 16, FirstPixel, SubsequentPixel.
WellFormedHWord(n, k, tag) ==
  IF k = 1 THEN MkHWord(2, 0, n, 0, tag)
  ELSE IF k <= HEADER_HWORDS_PER_FRAME THEN MkHWord(3, (k - 1) % 16, 0, 0, tag)
  ELSE IF k = HEADER_HWORDS_PER_FRAME + 1 THEN MkHWord(4, 0, 0, 1, tag)
  ELSE MkHWord(5, 0, 0, k - HEADER_HWORDS_PER_FRAME, tag)

\* The bytes of that frame: its 110 + n HWORDs one after the other.
WellFormedFrame(n, tag) ==
  [i \in 1..(HWORD_SIZE_BYTES * (HEADER_HWORDS_PER_FRAME + n)) |->
     WellFormedHWord(n, ((i - 1) \div HWORD_SIZE_BYTES) + 1, tag)
       [((i - 1) % HWORD_SIZE_BYTES) + 1]]

\* An HWORD with control code Idle that is not the Idle pattern.
IdleOther == MkHWord(7, 0, 0, 0, 0)

(***************************************************************************)
(* u32 values. A u32 is kept as its eight hexadecimal digits, most         *)
(* significant first, so that the whole range 0 .. 2^32 - 1, its overflow, *)
(* and the {:08X} / from_str_radix conversions are computed on the digits. *)
(***************************************************************************)
\* The u32 with the value n (0 <= n < 2^31).
U32(n) == [i \in 1..8 |-> (n \div (16 ^ (8 - i))) % 16]

\* u32::MAX
U32_MAX == [i \in 1..8 |-> 15]

\* a < b and a >= b on u32 values.
u32_lt(a, b) ==
  \E k \in 1..8 : a[k] < b[k] /\ \A j \in 1..(k - 1) : a[j] = b[j]

u32_ge(a, b) == ~u32_lt(a, b)

\* a + 1 modulo 2^32.
u32_wrapping_add1(a) ==
  IF a = U32_MAX THEN U32(0)
  ELSE LET k == CHOOSE i \in 1..8 :
                  a[i] /= 15 /\ \A j \in (i + 1)..8 : a[j] = 15
       IN [i \in 1..8 |-> IF i < k THEN a[i]
                           ELSE IF i = k THEN a[i] + 1 ELSE 0]

\* `a + 1` / `a += 1` on a u32: at u32::MAX the addition panics when the
\* build has overflow checks (None) and wraps to 0 when it has not.
u32_add1(a, overflow_checks) ==
  IF a = U32_MAX /\ overflow_checks THEN None
  ELSE Some(u32_wrapping_add1(a))

(***************************************************************************)
(* File names (capture.rs): a name is the sequence of its characters       *)
(***************************************************************************)
HexUpper == <<"0", "1", "2", "3", "4", "5", "6", "7",
              "8", "9", "A", "B", "C", "D", "E", "F">>

HexLower == <<"0", "1", "2", "3", "4", "5", "6", "7",
              "8", "9", "a", "b", "c", "d", "e", "f">>

\* char::to_digit(16): the value of a hexadecimal digit, None for any other
\* character.
to_digit_16(ch) ==
  IF \E d \in 1..16 : HexUpper[d] = ch
    THEN Some((CHOOSE d \in 1..16 : HexUpper[d] = ch) - 1)
  ELSE IF \E d \in 1..16 : HexLower[d] = ch
    THEN Some((CHOOSE d \in 1..16 : HexLower[d] = ch) - 1)
  ELSE None

\* u32::from_str_radix(s, 16) for a string of at most 8 characters: an
\* optional leading "+", then one or more hexadecimal digits of either
\* case; None stands for Err(ParseIntError).
from_str_radix_16(s) ==
  LET digits == IF s /= <<>> /\ s[1] = "+" THEN Tail(s) ELSE s
      pad == 8 - Len(digits)
  IN IF digits = <<>> THEN None
     ELSE IF \E i \in 1..Len(digits) : ~IsSome(to_digit_16(digits[i])) THEN None
     ELSE Some([i \in 1..8 |-> IF i <= pad THEN 0
                                ELSE Unwrap(to_digit_16(digits[i - pad]))])

\* format!("{:X}", c): upper-case hexadecimal digits without padding.
format_08X_Unpadded(c) ==
  LET zeros == {i \in 1..8 : \A j \in 1..i : c[j] = 0}
      pad == IF Cardinality(zeros) = 8 THEN 7 ELSE Cardinality(zeros)
  IN [i \in 1..(8 - pad) |-> HexUpper[c[pad + i] + 1]]

\* format!("{:08X}", c)
format_08X(c) == [i \in 1..8 |-> HexUpper[c[i] + 1]]

DotDsql == <<".", "d", "s", "q", "l">>

IncompleteSuffix == <<"_", "i", "n", "c", "o", "m", "p", "l", "e", "t", "e">>

\* str::ends_with
ends_with(s, suffix) ==
  /\ Len(s) >= Len(suffix)
  /\ SubSeq(s, Len(s) - Len(suffix) + 1, Len(s)) = suffix

\* The file name of complete frame number c: format!("{}/{:08X}.dsql", ..).
FrameFileName(c) == format_08X(c) \o DotDsql

\* The file name of the frame left unfinished at shutdown:
\* format!("{}/{:08X}_incomplete.dsql", ..).
IncompleteFileName(c) == format_08X(c) \o IncompleteSuffix \o DotDsql

\* find_next_frame_number, the loop over the directory entries in the order
\* read_dir yields them, from the entries still to visit and the value of
\* max_frame. "Panic" is the thread panicking: on `&filename[..8]` for a
\* name shorter than 8 bytes, or on `frame_num + 1` overflowing with
\* overflow checks.
RECURSIVE find_next_frame_number_from(_, _, _)
find_next_frame_number_from(entries, max_frame, overflow_checks) ==
  IF entries = <<>> THEN [tag |-> "Ok", value |-> max_frame]
  ELSE
    LET filename == Head(entries)
        rest == Tail(entries)
    IN IF ~ends_with(filename, DotDsql)
         THEN find_next_frame_number_from(rest, max_frame, overflow_checks)
       ELSE IF Len(filename) < 8 THEN [tag |-> "Panic"]
       ELSE
         LET parsed_num == from_str_radix_16(SubSeq(filename, 1, 8)) IN
         IF ~IsSome(parsed_num)
           THEN find_next_frame_number_from(rest, max_frame, overflow_checks)
         ELSE IF u32_ge(Unwrap(parsed_num), max_frame)
           THEN LET next == u32_add1(Unwrap(parsed_num), overflow_checks) IN
                IF ~IsSome(next) THEN [tag |-> "Panic"]
                ELSE find_next_frame_number_from(rest, Unwrap(next),
                                                 overflow_checks)
         ELSE find_next_frame_number_from(rest, max_frame, overflow_checks)

\* find_next_frame_number on a directory whose files read_dir lists as
\* `entries`.
find_next_frame_number(entries, overflow_checks) ==
  find_next_frame_number_from(entries, U32(0), overflow_checks)

(***************************************************************************)
(* Frame decoding (frame.rs)                                               *)
(***************************************************************************)
\* FrameHeader::extract_registers: five 16-bit registers per header HWORD,
\* register i of an HWORD being payload bits 16i+15:16i.
extract_registers(hwords) ==
  [r \in 1..(5 * Len(hwords)) |->
     LET h == hwords[((r - 1) \div 5) + 1]
         i == (r - 1) % 5
     IN h.data[2 * i + 1] + 256 * h.data[2 * i + 2]]

\* Frame::from_bytes. in_header before HWORD i is what the last FirstHeader
\* (true) or FirstPixel (false) before it left, false at the start.
\* HWord::from_bytes accepts every control code and add_hword is only called
\* with an HWORD of its kind, so the length test is the only failure.
Frame_from_bytes(frame_id, data) ==
  IF Len(data) % HWORD_SIZE_BYTES /= 0 THEN [tag |-> "InvalidFileFormat"]
  ELSE
    LET n == Len(data) \div HWORD_SIZE_BYTES
        hword == [i \in 1..n |->
                    HWord_from_bytes(SubSeq(data, HWORD_SIZE_BYTES * (i - 1) + 1,
                                            HWORD_SIZE_BYTES * i)).hword]
        switches == {i \in 1..n :
                       hword[i].control_bits \in {"FirstHeader", "FirstPixel"}}
        in_header == [i \in 1..n |->
                        LET before == {j \in switches : j < i} IN
                        /\ before /= {}
                        /\ hword[CHOOSE j \in before : \A m \in before : m <= j]
                             .control_bits = "FirstHeader"]
        items == [i \in 1..n |-> [hword |-> hword[i], in_header |-> in_header[i]]]
        header_items ==
          SelectSeq(items,
                    LAMBDA x : \/ x.hword.control_bits = "FirstHeader"
                               \/ /\ x.hword.control_bits = "SubsequentHeader"
                                  /\ x.in_header)
        pixel_items ==
          SelectSeq(items,
                    LAMBDA x : \/ x.hword.control_bits = "FirstPixel"
                               \/ /\ x.hword.control_bits = "SubsequentPixel"
                                  /\ ~x.in_header)
        header_hwords == [k \in 1..Len(header_items) |-> header_items[k].hword]
        pixel_hwords == [k \in 1..Len(pixel_items) |-> pixel_items[k].hword]
    IN [tag |-> "Ok",
        frame |-> [frame_id |-> frame_id,
                   header |-> [hwords |-> header_hwords,
                               registers |-> extract_registers(header_hwords)],
                   pixels |-> [hwords |-> pixel_hwords],
                   frame_type |-> "point_cloud"]]

(***************************************************************************)
(* Parity (hword.rs) and the synthetic frames of the debug generator       *)
(* (capture.rs)                                                            *)
(***************************************************************************)
\* u128::count_ones of the 96-bit word made of 12 bytes.
count_ones(bytes) ==
  CountOnes(bytes[1]) + CountOnes(bytes[2]) + CountOnes(bytes[3])
  + CountOnes(bytes[4]) + CountOnes(bytes[5]) + CountOnes(bytes[6])
  + CountOnes(bytes[7]) + CountOnes(bytes[8]) + CountOnes(bytes[9])
  + CountOnes(bytes[10]) + CountOnes(bytes[11]) + CountOnes(bytes[12])

\* HWord::verify_parity: the word rebuilt by to_bytes has an odd number of
\* one bits.
verify_parity(h) == count_ones(HWord_to_bytes(h)) % 2 = 1

\* generate_synthetic_frame: points_per_frame
points_per_frame == 122000

\* The four bytes of a u32, most significant first.
U32Bytes(c) == [j \in 1..4 |-> 16 * c[2 * j - 1] + c[2 * j]]

\* generate_synthetic_frame: the FirstHeader HWORD, the word
\* (2 << 93) | frame_number | (points_per_frame << 32) as 12 big-endian
\* bytes. No parity bit is computed for it.
synthetic_first_header(frame_number) ==
  <<2 * 32, 0, 0, 0, 0,
    (points_per_frame \div 65536) % 256,
    (points_per_frame \div 256) % 256,
    points_per_frame % 256>> \o U32Bytes(frame_number)

\* generate_synthetic_frame: the SubsequentHeader HWORD, the word 3 << 93.
\* No parity bit is computed for it.
synthetic_subsequent_header == <<3 * 32, 0, 0, 0, 0, 0, 0, 0, 0, 0, 0, 0>>

\* generate_synthetic_frame: the HWORD of point i. The floating-point
\* computation of the point is not modelled: p holds its results x_fixed and
\* y_fixed (19 bits), z_fixed (22 bits) and intensity (16 bits), which the
\* code packs at bits 23:0, 47:24, 71:48 and 87:72 under the control code
\* and the odd parity bit computed over the word.
synthetic_pixel(i, p) ==
  LET control_bits == IF i = 0 THEN 4 ELSE 5
      control_and_data ==
        <<control_bits * 32,
          p.intensity \div 256, p.intensity % 256,
          p.z_fixed \div 65536, (p.z_fixed \div 256) % 256, p.z_fixed % 256,
          p.y_fixed \div 65536, (p.y_fixed \div 256) % 256, p.y_fixed % 256,
          p.x_fixed \div 65536, (p.x_fixed \div 256) % 256, p.x_fixed % 256>>
      ones_count == count_ones(control_and_data)
      parity_bit == IF ones_count % 2 = 0 THEN 1 ELSE 0
  IN [control_and_data EXCEPT ![1] = @ + parity_bit * 16]

\* generate_synthetic_frame(frame_number): the k-th HWORD of the frame
\* (k = 0 .. points_per_frame + 1): the FirstHeader, the SubsequentHeader,
\* then the points 0 .. points_per_frame - 1.
generate_synthetic_frame(frame_number, k, p) ==
  IF k = 0 THEN synthetic_first_header(frame_number)
  ELSE IF k = 1 THEN synthetic_subsequent_header
  ELSE synthetic_pixel(k - 2, p)

(***************************************************************************)
(* Decoding of pixel HWORDs (coordinates.rs) and Frame::data (frame.rs)    *)
(***************************************************************************)
COORDINATE_SCALE_FACTOR == 1024

\* `n as f64 / d` for an integer n below 2^53 and d a power of two: the
\* quotient is exact, and is kept as the fraction n / d.
f64_div(n, d) == [num |-> n, den |-> d]

\* str::to_lowercase on the field names of the model.
to_lowercase(s) ==
  CASE s = "X" -> "x"
    [] s = "Y" -> "y"
    [] s = "Z" -> "z"
    [] s = "Intensity" -> "intensity"
    [] s = "GAIN" -> "gain"
    [] s = "OverRange" -> "overrange"
    [] OTHER -> s

\* FieldType::from_str
FieldType_from_str(s) ==
  LET l == to_lowercase(s) IN
  CASE l = "x" -> Some("X")
    [] l = "y" -> Some("Y")
    [] l = "z" -> Some("Z")
    [] l = "intensity" -> Some("Intensity")
    [] l = "gain" -> Some("Gain")
    [] l \in {"over_range", "overrange"} -> Some("OverRange")
    [] OTHER -> None

\* FieldWhitelist::new: the field types the names parse to.
FieldWhitelist_new(field_names) ==
  {Unwrap(FieldType_from_str(field_names[i])) :
     i \in {j \in 1..Len(field_names) : IsSome(FieldType_from_str(field_names[j]))}}

\* FieldWhitelist::all
FieldWhitelist_all == {"X", "Y", "Z", "Intensity", "Gain", "OverRange"}

\* A whitelist that lets every field through.
includes_Any(whitelist, field) == TRUE

\* FieldWhitelist::includes
includes(whitelist, field) == field \in whitelist

\* CoordinatePoint::new
CoordinatePoint_new ==
  [x |-> None, y |-> None, z |-> None, intensity |-> None, gain |-> None,
   over_range |-> None]

\* The masked value taken as it is, without sign extension.
sign_extend_Unsigned(raw, bits) == raw

\* Sign extension of a raw value of `bits` bits to i32: raw | 0xFFF80000
\* (0xFFC00000) as i32 when its top bit is set.
sign_extend(raw, bits) ==
  IF (raw \div (2 ^ (bits - 1))) % 2 /= 0 THEN raw - 2 ^ bits ELSE raw

\* The integers extract_coordinates_from_hword divides by the scale factor:
\* (data & 0x7FFFF), ((data >> 24) & 0x7FFFF) and ((data >> 48) & 0x3FFFFF),
\* sign-extended. hword.data[i] here is data[i - 1] of the code, bits
\* 8i - 1 : 8i - 8 of the payload.
x_signed(hword) ==
  sign_extend(hword.data[1] + 256 * hword.data[2] + 65536 * (hword.data[3] % 8), 19)

y_signed(hword) ==
  sign_extend(hword.data[4] + 256 * hword.data[5] + 65536 * (hword.data[6] % 8), 19)

z_signed(hword) ==
  sign_extend(hword.data[7] + 256 * hword.data[8] + 65536 * (hword.data[9] % 64), 22)

\* extract_coordinates_from_hword
extract_coordinates_from_hword(hword, whitelist) ==
  IF ~is_pixel(hword.control_bits) THEN None
  ELSE Some(
    [x |-> IF includes(whitelist, "X")
             THEN Some(f64_div(x_signed(hword), COORDINATE_SCALE_FACTOR))
             ELSE None,
     y |-> IF includes(whitelist, "Y")
             THEN Some(f64_div(y_signed(hword), COORDINATE_SCALE_FACTOR))
             ELSE None,
     z |-> IF includes(whitelist, "Z")
             THEN Some(f64_div(z_signed(hword), COORDINATE_SCALE_FACTOR))
             ELSE None,
     intensity |-> IF includes(whitelist, "Intensity")
                     THEN Some(hword.data[10] + 256 * (hword.data[11] % 16))
                     ELSE None,
     over_range |-> IF includes(whitelist, "OverRange")
                      THEN Some((hword.remaining_bits \div 4) % 2 /= 0)
                      ELSE None,
     gain |-> IF includes(whitelist, "Gain")
                THEN Some((hword.remaining_bits \div 8) % 2 /= 0)
                ELSE None])

\* A selection that starts its stride at index 1 instead of index 0.
extract_coordinates_FromOne(hwords, whitelist, decimation) ==
  LET indexes == [i \in 1..Len(hwords) |-> i - 1]
      kept == SelectSeq(indexes,
                LAMBDA i :
                  /\ ~(decimation > 1 /\ (i + 1) % decimation /= 0)
                  /\ IsSome(extract_coordinates_from_hword(hwords[i + 1], whitelist)))
  IN [n \in 1..Len(kept) |->
        Unwrap(extract_coordinates_from_hword(hwords[kept[n] + 1], whitelist))]

\* PixelData::extract_coordinates: the points of the HWORDs whose index i
\* (from 0) passes `decimation > 1 && i % decimation != 0` and that decode.
extract_coordinates(hwords, whitelist, decimation) ==
  LET indexes == [i \in 1..Len(hwords) |-> i - 1]
      kept == SelectSeq(indexes,
                LAMBDA i :
                  /\ ~(decimation > 1 /\ i % decimation /= 0)
                  /\ IsSome(extract_coordinates_from_hword(hwords[i + 1], whitelist)))
  IN [n \in 1..Len(kept) |->
        Unwrap(extract_coordinates_from_hword(hwords[kept[n] + 1], whitelist))]

\* Frame::num_pixels
num_pixels(frame) == Len(frame.pixels.hwords)

\* Frame::data(decimation, field_whitelist), both Option
Frame_data(frame, decimation, field_whitelist) ==
  LET d == IF IsSome(decimation) THEN Unwrap(decimation) ELSE 1
      whitelist == IF IsSome(field_whitelist)
                     THEN FieldWhitelist_new(Unwrap(field_whitelist))
                     ELSE FieldWhitelist_all
  IN extract_coordinates(frame.pixels.hwords, whitelist, d)

(***************************************************************************)
(* The frame number of a file name (frame.rs)                              *)
(***************************************************************************)
\* Path::file_stem of a file name: the name up to its last '.', the whole
\* name when it has no '.' after its first character.
file_stem(name) ==
  LET dots == {i \in 2..Len(name) : name[i] = "."} IN
  IF dots = {} THEN name
  ELSE SubSeq(name, 1, (CHOOSE i \in dots : \A j \in dots : j <= i) - 1)

DecDigits == <<"0", "1", "2", "3", "4", "5", "6", "7", "8", "9">>

is_dec_digit(ch) == \E d \in 1..10 : DecDigits[d] = ch

dec_value(ch) == (CHOOSE d \in 1..10 : DecDigits[d] = ch) - 1

\* The value of a string of decimal digits.
RECURSIVE dec_number(_)
dec_number(s) ==
  IF s = <<>> THEN 0
  ELSE 10 * dec_number(SubSeq(s, 1, Len(s) - 1)) + dec_value(s[Len(s)])

\* str::parse::<u32>: an optional '+', then decimal digits only, of a value
\* up to u32::MAX. Strings of more than 9 digits, which the model does not
\* feed, are not distinguished from overflow.
parse_u32(s) ==
  LET digits == IF s /= <<>> /\ s[1] = "+" THEN Tail(s) ELSE s IN
  IF digits = <<>> \/ Len(digits) > 9 THEN None
  ELSE IF \E i \in 1..Len(digits) : ~is_dec_digit(digits[i]) THEN None
  ELSE Some(U32(dec_number(digits)))

\* Regex (\d+), find: the first run of digits of s, <<>> when it has none.
first_digits(s) ==
  LET starts == {i \in 1..Len(s) : is_dec_digit(s[i])} IN
  IF starts = {} THEN <<>>
  ELSE LET a == CHOOSE i \in starts : \A j \in starts : i <= j
           b == CHOOSE i \in a..Len(s) :
                  /\ \A j \in a..i : is_dec_digit(s[j])
                  /\ (i = Len(s) \/ ~is_dec_digit(s[i + 1]))
       IN SubSeq(s, a, b)

\* extract_frame_number_from_path: the stem read as 8 hexadecimal digits,
\* else as a decimal number, else its first run of digits, else a hash of
\* the stem (whose value is not computed here).
extract_frame_number_from_path(path) ==
  LET filename == file_stem(path) IN
  IF Len(filename) = 8 /\ IsSome(from_str_radix_16(filename))
    THEN [tag |-> "Ok", value |-> Unwrap(from_str_radix_16(filename))]
  ELSE IF IsSome(parse_u32(filename))
    THEN [tag |-> "Ok", value |-> Unwrap(parse_u32(filename))]
  ELSE IF first_digits(filename) /= <<>> /\ IsSome(parse_u32(first_digits(filename)))
    THEN [tag |-> "Ok", value |-> Unwrap(parse_u32(first_digits(filename)))]
  ELSE [tag |-> "Hash"]

(***************************************************************************)
(* State                                                                   *)
(***************************************************************************)
VARIABLES
  sync_engine,   \* the FrameSyncEngine
  chunk_in,      \* the chunk of the last process_hword call (<<>>: none yet)
  returned,      \* what that call returned: None or Some(frame bytes)
  idles,         \* Idle HWORDs sent since the last HWORD of a frame
  cycles,        \* frames the instrument has started
  pos,           \* HWORDs of the current frame sent so far (0: between frames)
  curN,          \* pixel count of the current frame
  disturbed,     \* the deviations from the well-formed stream, in order: what
                 \* came (kind), after how many HWORDs (at) of a frame of n pixels
  clean,         \* well-formed frames started since the last deviation
  running,       \* SimpleFrameGrabber.running, the run flag
  start_pc,      \* where start() is: joining the receiver, the writer, returned
  session_dir,   \* the files of the session directory as read_dir lists them
                 \* when the writer starts
  queue,         \* the bounded channel data_tx -> data_rx, oldest first
  queue_at,      \* for each queued packet, the wire offset of its first byte
  data_tx_alive, \* the receiver still holds the Sender
  data_rx_alive, \* the writer still holds the Receiver
  udp_pc,        \* where udp_receiver_thread is
  wire_sent,     \* bytes of the wire stream the socket has delivered
  packet_count,  \* udp_receiver_thread: packet_count
  error_count,   \* udp_receiver_thread: error_count
  enqueued,      \* packets try_send accepted
  recv_failed,   \* socket.recv calls that returned an error
  writer_pc,     \* where file_writer_thread is
  buffer,        \* file_writer_thread: the continuous byte buffer
  buffer_at,     \* where the bytes of buffer come from in the wire stream
  fed,           \* the chunks the last WriterDrain step gave to the engine,
                 \* each with the wire offset (at) of its first byte
  dequeued,      \* packets recv_timeout handed to the writer
  total_hwords_processed,  \* file_writer_thread: chunks given to the engine
  frame_counter, \* file_writer_thread: number of the next frame file (u32)
  files,         \* the files written by std::fs::write, in order
  raw,           \* codec: the 12 bytes given to HWord::from_bytes
  parsed,        \* codec: what HWord::from_bytes returned (None: not called)
  reserialized,  \* codec: what HWord::to_bytes returned (None: not called)
  u8_in,         \* codec: the value given to ControlBits::from_u8
  u8_out,        \* codec: Some(what from_u8 returned) (None: not called)
  scan_result,   \* Some(what find_next_frame_number returned on session_dir)
  save_files,    \* SimpleFrameGrabber.save_files
  live_output,   \* SimpleFrameGrabber.live_output (decode_mode is false)
  stdout,        \* the writes to the standard output of the process, in order
  start_result,  \* Some(what start() returned): "Ok" or "Err"
  exit_code,     \* Some(exit code of the process) once main has returned
  synth_in,      \* generator: frame number, index k and point of the HWORD asked
  synth_out,     \* generator: Some(the 12 bytes generated) (None: not called)
  file_bytes,    \* decoder: the bytes given to Frame::from_bytes
  decimation,    \* decoder: the decimation given to Frame::data (an Option)
  field_whitelist, \* decoder: the field names given to Frame::data (an Option)
  decoded,       \* decoder: Some(what Frame::from_bytes returned)
  points,        \* decoder: Some(what Frame::data returned)
  counter_in,    \* naming: the frame counter of a frame file (u32)
  file_name,     \* naming: Some(the name the writer gives that file)
  number_out,    \* naming: Some(what extract_frame_number_from_path returned)
  twin_engine,   \* a second FrameSyncEngine, fed a variant of the same input
  twin_in,       \* the chunk of the twin's last process_hword call
  twin_returned, \* what that call returned
  calls          \* process_hword calls made on sync_engine by a free input

engineVars == <<sync_engine, chunk_in, returned>>

streamVars == <<idles, cycles, pos, curN, disturbed, clean>>

chanVars == <<queue, queue_at, data_tx_alive, data_rx_alive>>

udpVars == <<udp_pc, wire_sent, packet_count, error_count, enqueued, recv_failed>>

writerVars == <<writer_pc, buffer, buffer_at, fed, dequeued,
                total_hwords_processed, frame_counter, files>>

runVars == <<save_files, live_output, stdout, start_result, exit_code>>

pipeVars == <<running, start_pc, session_dir, chanVars, udpVars, writerVars,
              runVars>>

codecVars == <<raw, parsed, reserialized, u8_in, u8_out>>

dirVars == <<scan_result>>

synthVars == <<synth_in, synth_out>>

decodeVars == <<file_bytes, decimation, field_whitelist, decoded, points>>

nameVars == <<counter_in, file_name, number_out>>

twinVars == <<twin_engine, twin_in, twin_returned, calls>>

toolVars == <<synthVars, decodeVars, nameVars, twinVars>>

vars == <<sync_engine, chunk_in, returned, streamVars, pipeVars, codecVars,
          dirVars, toolVars>>

\* One write to the standard output: a line of text (println!) or bytes
\* (write_all).
Text(line) == [kind |-> "text", text |-> line, bytes |-> <<>>]

Bytes(data) == [kind |-> "bytes", text |-> "", bytes |-> data]

\* What main and run_capture_cli have printed when they call start(), for a
\* `capture` command without --debug: main prints two lines when --live is
\* given, run_capture_cli four lines.
Banner(save, live) ==
  (IF live THEN <<Text("Starting frame capture (DEBUG mode)"),
                  Text("Live output mode (no file saving)")>>
   ELSE <<>>)
  \o <<Text("Starting frame capture (CLI mode)"),
       Text("Bind address"),
       Text("Port"),
       IF save THEN Text("Output directory")
       ELSE Text("Live output mode (no file saving)")>>

\* The capture pipeline when start() has spawned its two threads, in session
\* directory `dir`, the receiver at udp_at, the writer at writer_at with
\* frame_counter = counter; debug_mode and decode_mode are false.
PipeStartAt(dir, counter, udp_at, writer_at, save, live) ==
  /\ save_files = save
  /\ live_output = live
  /\ stdout = Banner(save, live)
  /\ start_result = None
  /\ exit_code = None
  /\ running = TRUE
  /\ start_pc = "join_udp"
  /\ session_dir = dir
  /\ queue = <<>>
  /\ queue_at = <<>>
  /\ data_tx_alive = TRUE
  /\ data_rx_alive = TRUE
  /\ udp_pc = udp_at
  /\ wire_sent = 0
  /\ packet_count = 0
  /\ error_count = 0
  /\ enqueued = 0
  /\ recv_failed = 0
  /\ writer_pc = writer_at
  /\ buffer = <<>>
  /\ buffer_at = <<>>
  /\ fed = <<>>
  /\ dequeued = 0
  /\ total_hwords_processed = 0
  /\ frame_counter = counter
  /\ files = <<>>

\* The pipeline once both threads have set up and entered their loops: the
\* socket is bound, the session directory exists, save_files is true and
\* live_output false.
PipeStartWith(dir, counter) ==
  PipeStartAt(dir, counter, "loop", "loop", TRUE, FALSE)

\* The pipeline with the counter the writer's scan of `dir` returns.
PipeStartIn(dir) ==
  PipeStartWith(dir, find_next_frame_number(dir, TRUE).value)

\* The pipeline started on an empty session directory.
PipeStart == PipeStartIn(<<>>)

\* The codec before any call.
CodecStart ==
  /\ raw = <<>>
  /\ parsed = None
  /\ reserialized = None
  /\ u8_in = 0
  /\ u8_out = None

\* No directory scan requested.
DirStart == scan_result = None

\* The generator before any call.
SynthStart ==
  /\ synth_in = <<>>
  /\ synth_out = None

\* The frame decoder before any call.
DecodeStart ==
  /\ file_bytes = <<>>
  /\ decimation = None
  /\ field_whitelist = None
  /\ decoded = None
  /\ points = None

\* No file named yet.
NameStart ==
  /\ counter_in = U32(0)
  /\ file_name = None
  /\ number_out = None

\* The second engine before any call.
TwinStart ==
  /\ twin_engine = FrameSyncEngine_new
  /\ twin_in = <<>>
  /\ twin_returned = None
  /\ calls = 0

ToolStart == SynthStart /\ DecodeStart /\ NameStart /\ TwinStart

\* The instrument before it has sent anything.
StreamStart ==
  /\ idles = 0
  /\ cycles = 0
  /\ pos = 0
  /\ curN = 0
  /\ disturbed = <<>>
  /\ clean = 0

\* The pixel counts the c-th frame of a stream may announce.
PixelCounts(c) == IF c = 1 THEN {1, 2, 5} ELSE IF c = 2 THEN {1, 2} ELSE {1}

\* Positions of a frame at which the stream may deviate: before its 2nd,
\* 50th, 52nd and 110th HWORD (all headers) and before its first and second
\* pixel.
DisturbAt(p) ==
  \/ p \in {1, 49, 51}
  \/ p \in {HEADER_HWORDS_PER_FRAME - 1, HEADER_HWORDS_PER_FRAME,
            HEADER_HWORDS_PER_FRAME + 1}

CanDisturb == Len(disturbed) < MaxDisturb /\ cycles <= 1

\* One call of process_hword on the engine.
Call(chunk) ==
  LET r == process_hword(sync_engine, chunk) IN
  /\ sync_engine' = r.e
  /\ returned' = r.ret
  /\ chunk_in' = chunk
  /\ UNCHANGED <<pipeVars, codecVars, dirVars, toolVars>>

Init ==
  /\ sync_engine = FrameSyncEngine_new
  /\ chunk_in = <<>>
  /\ returned = None
  /\ StreamStart
  /\ PipeStart
  /\ CodecStart
  /\ DirStart
  /\ ToolStart

\* The next HWORD of the frame being sent.
Scripted == WellFormedHWord(curN, pos + 1, cycles)

\* An Idle HWORD before the first frame.
FeedIdle ==
  /\ pos = 0 /\ cycles = 0 /\ disturbed = <<>>
  /\ idles < MaxIdle
  /\ Call(IDLE_HWORD_PATTERN)
  /\ idles' = idles + 1
  /\ UNCHANGED <<cycles, pos, curN, disturbed, clean>>

\* The FirstHeader of a new frame, after the previous frame's last pixel.
StartFrame ==
  /\ pos = 0 /\ cycles < MaxCycles
  /\ \E n \in PixelCounts(cycles + 1) :
       /\ Call(WellFormedHWord(n, 1, cycles + 1))
       /\ curN' = n
  /\ cycles' = cycles + 1
  /\ pos' = 1
  /\ clean' = clean + 1
  /\ idles' = 0
  /\ UNCHANGED disturbed

\* The next HWORD of the current frame.
FeedScripted ==
  /\ pos > 0
  /\ Call(Scripted)
  /\ pos' = IF pos + 1 = HEADER_HWORDS_PER_FRAME + curN THEN 0 ELSE pos + 1
  /\ UNCHANGED <<idles, cycles, curN, disturbed, clean>>

\* The current frame is cut short: the FirstHeader of the next frame arrives
\* in place of its next HWORD.
Truncate ==
  /\ pos > 0 /\ DisturbAt(pos) /\ CanDisturb /\ cycles < MaxCycles
  /\ \E n \in PixelCounts(cycles + 1) :
       /\ Call(WellFormedHWord(n, 1, cycles + 1))
       /\ curN' = n
  /\ cycles' = cycles + 1
  /\ pos' = 1
  /\ clean' = 1
  /\ disturbed' = Append(disturbed, [kind |-> "truncate", at |-> pos, n |-> curN])
  /\ UNCHANGED idles

\* HWORDs that may take the place of, or come before, a frame's next HWORD.
Stray(p) ==
  {[kind |-> "idle", chunk |-> IDLE_HWORD_PATTERN],
   [kind |-> "idle_other", chunk |-> IdleOther],
   [kind |-> "reserved", chunk |-> MkHWord(0, 0, 0, 0, 9)],
   [kind |-> "pixel", chunk |-> MkHWord(5, 0, 0, 8, 9)]}
  \cup {[kind |-> "index", chunk |-> MkHWord(3, (p + d) % 16, 0, 0, cycles)] :
          d \in {2, 15}}

\* The next HWORD of the current frame is replaced by another one.
Replace ==
  /\ pos > 0 /\ DisturbAt(pos) /\ CanDisturb
  /\ \E s \in Stray(pos) :
       /\ s.chunk /= Scripted
       /\ Call(s.chunk)
       /\ disturbed' = Append(disturbed, [kind |-> s.kind, at |-> pos, n |-> curN])
  /\ pos' = IF pos + 1 = HEADER_HWORDS_PER_FRAME + curN THEN 0 ELSE pos + 1
  /\ clean' = 0
  /\ UNCHANGED <<idles, cycles, curN>>

\* An extra HWORD arrives before the next HWORD of the stream.
Insert ==
  /\ (pos = 0 \/ DisturbAt(pos)) /\ CanDisturb
  /\ \E s \in Stray(pos) :
       /\ Call(s.chunk)
       /\ disturbed' = Append(disturbed, [kind |-> "insert", at |-> pos, n |-> curN])
  /\ clean' = 0
  /\ UNCHANGED <<idles, cycles, pos, curN>>

Next ==
  \/ FeedIdle
  \/ StartFrame
  \/ FeedScripted
  \/ Truncate
  \/ Replace
  \/ Insert

Spec == Init /\ [][Next]_vars

(***************************************************************************)
(* Capture pipeline (capture.rs): udp_receiver_thread and                  *)
(* file_writer_thread, joined by the bounded channel, start() joining      *)
(* both, and the run flag                                                  *)
(***************************************************************************)
\* The byte stream of the instrument: Idle HWORD, then a well-formed frame
\* of one pixel, over and over. WireByte(i) is its i-th byte (i >= 1).
WirePeriod == HWORD_SIZE_BYTES * (1 + HEADER_HWORDS_PER_FRAME + 1)

WirePeriodBytes == IDLE_HWORD_PATTERN \o WellFormedFrame(1, 1)

WireByte(i) == WirePeriodBytes[((i - 1) % WirePeriod) + 1]

\* Where the bytes of a buffer come from: a sequence of segments <<at, len>>,
\* len consecutive bytes of the wire stream from offset at. DropBytes is
\* what is left after the first n bytes are taken.
RECURSIVE DropBytes(_, _)
DropBytes(segments, n) ==
  IF n = 0 \/ segments = <<>> THEN segments
  ELSE LET at == Head(segments)[1]
           len == Head(segments)[2]
       IN IF len > n THEN <<(<<at + n, len - n>>)>> \o Tail(segments)
          ELSE DropBytes(Tail(segments), n - len)

\* The sizes of the datagrams the socket delivers (bytes_received): parts
\* of an HWORD, and an Idle HWORD with a frame but for its last 5 bytes.
DatagramSizes == {5, 7, WirePeriod - 5}

\* The session directories a capture starts in: a new one, and one whose
\* last frame file is FFFFFFFE.dsql.
SessionDirs == {<<>>, <<FrameFileName([U32_MAX EXCEPT ![8] = 14])>>}

\* The ctrlc handler of run_capture_cli: a line on the standard output, then
\* running.store(false).
Stop ==
  /\ running
  /\ stdout' = Append(stdout, Text("Received Ctrl+C, shutting down gracefully..."))
  /\ running' = FALSE
  /\ UNCHANGED <<engineVars, streamVars, start_pc, session_dir, chanVars,
                 udpVars, writerVars, save_files, live_output, start_result,
                 exit_code, codecVars, dirVars, toolVars>>

\* udp_receiver_thread: `while running.load(..)`
UdpCheck_IgnoreFlag ==
  /\ udp_pc = "loop"
  /\ udp_pc' = "recv"
  /\ UNCHANGED <<wire_sent, packet_count, error_count, enqueued, recv_failed>>
  /\ UNCHANGED <<engineVars, streamVars, running, start_pc, session_dir,
                 chanVars, writerVars, runVars, codecVars, dirVars, toolVars>>

UdpCheck ==
  /\ udp_pc = "loop"
  /\ udp_pc' = IF running THEN "recv" ELSE "exit"
  /\ UNCHANGED <<wire_sent, packet_count, error_count, enqueued, recv_failed>>
  /\ UNCHANGED <<engineVars, streamVars, running, start_pc, session_dir,
                 chanVars, writerVars, runVars, codecVars, dirVars, toolVars>>

\* UdpRecvPacket with a channel that takes every packet.
UdpRecvPacket_Unbounded ==
  /\ udp_pc = "recv"
  /\ packet_count < MaxPackets
  /\ \E bytes_received \in DatagramSizes :
       LET packet_data == [i \in 1..bytes_received |-> WireByte(wire_sent + i)]
           accepted == data_rx_alive
       IN /\ wire_sent' = wire_sent + bytes_received
          /\ packet_count' = packet_count + 1
          /\ queue' = IF accepted THEN Append(queue, packet_data) ELSE queue
          /\ queue_at' = IF accepted THEN Append(queue_at, wire_sent)
                         ELSE queue_at
          /\ enqueued' = IF accepted THEN enqueued + 1 ELSE enqueued
          /\ error_count' = IF accepted THEN error_count ELSE error_count + 1
  /\ udp_pc' = "loop"
  /\ UNCHANGED <<engineVars, streamVars, running, start_pc, session_dir,
                 data_tx_alive, data_rx_alive, recv_failed, writerVars,
                 runVars, codecVars, dirVars, toolVars>>

\* UdpRecvPacket dropping a packet without counting it.
UdpRecvPacket_NoCount ==
  /\ udp_pc = "recv"
  /\ packet_count < MaxPackets
  /\ \E bytes_received \in DatagramSizes :
       LET packet_data == [i \in 1..bytes_received |-> WireByte(wire_sent + i)]
           accepted == data_rx_alive /\ Len(queue) < QueueCap
       IN /\ wire_sent' = wire_sent + bytes_received
          /\ packet_count' = packet_count + 1
          /\ queue' = IF accepted THEN Append(queue, packet_data) ELSE queue
          /\ queue_at' = IF accepted THEN Append(queue_at, wire_sent)
                         ELSE queue_at
          /\ enqueued' = IF accepted THEN enqueued + 1 ELSE enqueued
          /\ error_count' = error_count
  /\ udp_pc' = "loop"
  /\ UNCHANGED <<engineVars, streamVars, running, start_pc, session_dir,
                 data_tx_alive, data_rx_alive, recv_failed, writerVars,
                 runVars, codecVars, dirVars, toolVars>>

\* udp_receiver_thread: recv returns a datagram, which is handed to try_send:
\* accepted unless the channel is full or disconnected.
UdpRecvPacket ==
  /\ udp_pc = "recv"
  /\ packet_count < MaxPackets
  /\ \E bytes_received \in DatagramSizes :
       LET packet_data == [i \in 1..bytes_received |-> WireByte(wire_sent + i)]
           accepted == data_rx_alive /\ Len(queue) < QueueCap
       IN /\ wire_sent' = wire_sent + bytes_received
          /\ packet_count' = packet_count + 1
          /\ queue' = IF accepted THEN Append(queue, packet_data) ELSE queue
          /\ queue_at' = IF accepted THEN Append(queue_at, wire_sent)
                         ELSE queue_at
          /\ enqueued' = IF accepted THEN enqueued + 1 ELSE enqueued
          /\ error_count' = IF accepted THEN error_count ELSE error_count + 1
  /\ udp_pc' = "loop"
  /\ UNCHANGED <<engineVars, streamVars, running, start_pc, session_dir,
                 data_tx_alive, data_rx_alive, recv_failed, writerVars,
                 runVars, codecVars, dirVars, toolVars>>

\* udp_receiver_thread: the 100 ms timeout expires without a datagram.
UdpRecvTimeout ==
  /\ udp_pc = "recv"
  /\ udp_pc' = "loop"
  /\ UNCHANGED <<wire_sent, packet_count, error_count, enqueued, recv_failed>>
  /\ UNCHANGED <<engineVars, streamVars, running, start_pc, session_dir,
                 chanVars, writerVars, runVars, codecVars, dirVars, toolVars>>

\* udp_receiver_thread: recv fails.
UdpRecvError ==
  /\ udp_pc = "recv"
  /\ recv_failed < MaxRecvErrors
  /\ recv_failed' = recv_failed + 1
  /\ error_count' = error_count + 1
  /\ udp_pc' = "loop"
  /\ UNCHANGED <<wire_sent, packet_count, enqueued>>
  /\ UNCHANGED <<engineVars, streamVars, running, start_pc, session_dir,
                 chanVars, writerVars, runVars, codecVars, dirVars, toolVars>>

\* udp_receiver_thread returns: its Sender is dropped.
UdpExit ==
  /\ udp_pc = "exit"
  /\ udp_pc' = "done"
  /\ data_tx_alive' = FALSE
  /\ UNCHANGED <<wire_sent, packet_count, error_count, enqueued, recv_failed>>
  /\ UNCHANGED <<engineVars, streamVars, running, start_pc, session_dir,
                 queue, queue_at, data_rx_alive, writerVars, runVars,
                 codecVars, dirVars, toolVars>>

\* What the writer leaves alone while it only moves in its loop.
WriterKeeps ==
  UNCHANGED <<engineVars, streamVars, running, start_pc, session_dir,
              chanVars, udpVars, buffer, buffer_at, fed, dequeued,
              total_hwords_processed, frame_counter, files, runVars,
              codecVars, dirVars, toolVars>>

\* file_writer_thread: `while running.load(..) || ...`, the left operand.
WriterCheckRunning ==
  /\ writer_pc = "loop"
  /\ writer_pc' = IF running THEN "recv" ELSE "check_empty"
  /\ WriterKeeps

\* file_writer_thread: `... || !data_rx.is_empty()`, the right operand.
WriterCheckEmpty ==
  /\ writer_pc = "check_empty"
  /\ writer_pc' = IF queue /= <<>> THEN "recv" ELSE "post"
  /\ WriterKeeps

\* WriterRecvPacket putting the packet in the place of what the buffer held.
WriterRecvPacket_Overwrite ==
  /\ writer_pc = "recv"
  /\ queue /= <<>>
  /\ buffer' = Head(queue)
  /\ buffer_at' = <<(<<Head(queue_at), Len(Head(queue))>>)>>
  /\ queue' = Tail(queue)
  /\ queue_at' = Tail(queue_at)
  /\ dequeued' = dequeued + 1
  /\ writer_pc' = "drain"
  /\ UNCHANGED <<engineVars, streamVars, running, start_pc, session_dir,
                 data_tx_alive, data_rx_alive, udpVars, fed,
                 total_hwords_processed, frame_counter, files, runVars,
                 codecVars, dirVars, toolVars>>

\* file_writer_thread: recv_timeout returns a packet, which is appended to
\* the continuous buffer.
WriterRecvPacket ==
  /\ writer_pc = "recv"
  /\ queue /= <<>>
  /\ buffer' = buffer \o Head(queue)
  /\ buffer_at' = Append(buffer_at, <<Head(queue_at), Len(Head(queue))>>)
  /\ queue' = Tail(queue)
  /\ queue_at' = Tail(queue_at)
  /\ dequeued' = dequeued + 1
  /\ writer_pc' = "drain"
  /\ UNCHANGED <<engineVars, streamVars, running, start_pc, session_dir,
                 data_tx_alive, data_rx_alive, udpVars, fed,
                 total_hwords_processed, frame_counter, files, runVars,
                 codecVars, dirVars, toolVars>>

\* file_writer_thread: recv_timeout times out on the empty channel.
WriterRecvTimeout ==
  /\ writer_pc = "recv"
  /\ queue = <<>>
  /\ data_tx_alive
  /\ writer_pc' = "loop"
  /\ WriterKeeps

\* file_writer_thread: the channel is empty and its Sender is gone: break.
WriterRecvDisconnected ==
  /\ writer_pc = "recv"
  /\ queue = <<>>
  /\ ~data_tx_alive
  /\ writer_pc' = "post"
  /\ WriterKeeps

\* u32::to_le_bytes of a length below 2^31.
to_le_bytes(n) ==
  <<n % 256, (n \div 256) % 256, (n \div 65536) % 256, (n \div 16777216) % 256>>

\* output_live_frame with decode_mode false: the length of the frame as a
\* little-endian u32, then the frame, written to the standard output.
output_live_frame(out, hword_buffer) ==
  out \o <<Bytes(to_le_bytes(Len(hword_buffer))), Bytes(hword_buffer)>>

\* One turn of `while buffer.len() >= 12` on the writer's locals w: the
\* first 12 bytes go to the engine; a returned frame is written to the
\* standard output when live_output is set, where a failed write ends the
\* thread with that error (stdout_fails: the write fails before a byte is
\* out), and to the file named by frame_counter when save_files is set; then
\* frame_counter is incremented. At u32::MAX the increment panics or wraps,
\* as the build decides.
DrainTurn(w, overflow_checks, stdout_fails) ==
  LET chunk == SubSeq(w.buffer, 1, HWORD_SIZE_BYTES)
      next == u32_add1(w.frame_counter, overflow_checks)
  IN CHOOSE after \in
       {LET emitted == IsSome(r.ret)
            failed == emitted /\ w.live_output /\ stdout_fails
            written == emitted /\ ~failed
        IN [buffer |-> SubSeq(w.buffer, HWORD_SIZE_BYTES + 1, Len(w.buffer)),
            buffer_at |-> DropBytes(w.buffer_at, HWORD_SIZE_BYTES),
            fed |-> Append(w.fed, [chunk |-> chunk, at |-> w.buffer_at[1][1]]),
            total_hwords_processed |-> w.total_hwords_processed + 1,
            sync_engine |-> r.e,
            returned |-> r.ret,
            save_files |-> w.save_files,
            live_output |-> w.live_output,
            stdout |-> IF written /\ w.live_output
                         THEN output_live_frame(w.stdout, Unwrap(r.ret))
                         ELSE w.stdout,
            files |-> IF written /\ w.save_files
                        THEN Append(w.files,
                                    [name |-> FrameFileName(w.frame_counter),
                                     data |-> Unwrap(r.ret)])
                        ELSE w.files,
            frame_counter |-> IF written /\ IsSome(next) THEN Unwrap(next)
                              ELSE w.frame_counter,
            failed |-> failed,
            panicked |-> written /\ ~IsSome(next)] :
        r \in {process_hword(w.sync_engine, chunk)}} : TRUE

\* Up to `turns` turns of that loop, each turn working on the value the
\* turn before it left.
RECURSIVE DrainTurns(_, _, _, _)
DrainTurns(w, turns, overflow_checks, stdout_fails) ==
  IF turns = 0 \/ w.panicked \/ w.failed \/ Len(w.buffer) < HWORD_SIZE_BYTES
    THEN w
  ELSE CHOOSE after \in
         {DrainTurns(v, turns - 1, overflow_checks, stdout_fails) :
            v \in {DrainTurn(w, overflow_checks, stdout_fails)}} : TRUE

\* file_writer_thread: `while buffer.len() >= 12 { .. }`, which touches
\* nothing but the writer's own variables and the standard output, taken up
\* to DrainBatch turns at a time. The loop is left when fewer than 12 bytes
\* remain; an error or a panic ends the thread, whose Receiver is dropped.
WriterDrain ==
  /\ writer_pc = "drain"
  /\ UNCHANGED <<streamVars, running, start_pc, session_dir, queue, queue_at,
                 data_tx_alive, udpVars, dequeued, save_files, live_output,
                 start_result, exit_code, codecVars, dirVars, toolVars>>
  /\ \E overflow_checks \in BOOLEAN :
     \E stdout_fails \in (IF live_output THEN BOOLEAN ELSE {FALSE}) :
       \E w \in {DrainTurns([buffer |-> buffer,
                            buffer_at |-> buffer_at,
                            fed |-> <<>>,
                            total_hwords_processed |-> total_hwords_processed,
                            sync_engine |-> sync_engine,
                            returned |-> returned,
                            save_files |-> save_files,
                            live_output |-> live_output,
                            stdout |-> stdout,
                            files |-> files,
                            frame_counter |-> frame_counter,
                            failed |-> FALSE,
                            panicked |-> FALSE],
                           DrainBatch, overflow_checks, stdout_fails)} :
          /\ buffer' = w.buffer
          /\ buffer_at' = w.buffer_at
          /\ fed' = w.fed
          /\ total_hwords_processed' = w.total_hwords_processed
          /\ sync_engine' = w.sync_engine
          /\ returned' = w.returned
          /\ chunk_in' = IF w.fed = <<>> THEN chunk_in
                         ELSE w.fed[Len(w.fed)].chunk
          /\ stdout' = w.stdout
          /\ files' = w.files
          /\ frame_counter' = w.frame_counter
          /\ writer_pc' = IF w.panicked THEN "panicked"
                          ELSE IF w.failed THEN "failed"
                          ELSE IF Len(w.buffer) >= HWORD_SIZE_BYTES THEN "drain"
                          ELSE "loop"
          /\ data_rx_alive' = (data_rx_alive /\ ~w.panicked /\ ~w.failed)

\* WriterExit writing the bytes left in the scratch buffer as well.
WriterExit_WithScratch ==
  /\ writer_pc = "post"
  /\ writer_pc' = "done"
  /\ data_rx_alive' = FALSE
  /\ files' = IF current_buffer(sync_engine) /= <<>> /\ save_files
                THEN Append(files, [name |-> IncompleteFileName(frame_counter),
                                    data |-> current_buffer(sync_engine) \o buffer])
                ELSE files
  /\ UNCHANGED <<engineVars, streamVars, running, start_pc, session_dir,
                 queue, queue_at, data_tx_alive, udpVars, buffer, buffer_at,
                 fed, dequeued, total_hwords_processed, frame_counter,
                 runVars, codecVars, dirVars, toolVars>>

\* file_writer_thread: the code after the loop: what is in the engine's
\* buffer is written to the `_incomplete` file; then the return, which
\* drops the Receiver.
WriterExit ==
  /\ writer_pc = "post"
  /\ writer_pc' = "done"
  /\ data_rx_alive' = FALSE
  /\ files' = IF current_buffer(sync_engine) /= <<>> /\ save_files
                THEN Append(files, [name |-> IncompleteFileName(frame_counter),
                                    data |-> current_buffer(sync_engine)])
                ELSE files
  /\ UNCHANGED <<engineVars, streamVars, running, start_pc, session_dir,
                 queue, queue_at, data_tx_alive, udpVars, buffer, buffer_at,
                 fed, dequeued, total_hwords_processed, frame_counter,
                 runVars, codecVars, dirVars, toolVars>>

\* start(): udp_handle.join() returns once the receiver has ended, with
\* Ok or with an error.
StartJoinUdp ==
  /\ start_pc = "join_udp"
  /\ udp_pc \in {"done", "failed"}
  /\ start_pc' = "join_writer"
  /\ UNCHANGED <<engineVars, streamVars, running, session_dir, chanVars,
                 udpVars, writerVars, runVars, codecVars, dirVars, toolVars>>

\* start(): writer_handle.join() returns once the writer has ended, by
\* returning or by panicking; then start() returns: an error when the
\* writer panicked or either thread returned one.
StartJoinWriter ==
  /\ start_pc = "join_writer"
  /\ writer_pc \in {"done", "failed", "panicked"}
  /\ start_pc' = "returned"
  /\ start_result' = IF writer_pc = "done" /\ udp_pc = "done" THEN Some("Ok")
                     ELSE Some("Err")
  /\ UNCHANGED <<engineVars, streamVars, running, session_dir, chanVars,
                 udpVars, writerVars, save_files, live_output, stdout,
                 exit_code, codecVars, dirVars, toolVars>>

PipeInit ==
  /\ sync_engine = FrameSyncEngine_new
  /\ chunk_in = <<>>
  /\ returned = None
  /\ StreamStart
  /\ \E dir \in SessionDirs : PipeStartIn(dir)
  /\ CodecStart
  /\ DirStart
  /\ ToolStart

\* The steps of each thread.
UdpStep ==
  \/ UdpCheck
  \/ UdpRecvPacket
  \/ UdpRecvTimeout
  \/ UdpRecvError
  \/ UdpExit

WriterStep ==
  \/ WriterCheckRunning
  \/ WriterCheckEmpty
  \/ WriterRecvPacket
  \/ WriterRecvTimeout
  \/ WriterRecvDisconnected
  \/ WriterDrain
  \/ WriterExit

StartStep ==
  \/ StartJoinUdp
  \/ StartJoinWriter

PipeNext ==
  \/ Stop
  \/ UdpCheck
  \/ UdpRecvPacket
  \/ UdpRecvTimeout
  \/ UdpRecvError
  \/ UdpExit
  \/ WriterCheckRunning
  \/ WriterCheckEmpty
  \/ WriterRecvPacket
  \/ WriterRecvTimeout
  \/ WriterRecvDisconnected
  \/ WriterDrain
  \/ WriterExit
  \/ StartJoinUdp
  \/ StartJoinWriter

SpecPipe == PipeInit /\ [][PipeNext]_vars

\* The pipeline with every thread scheduled again and again: a thread that
\* can take a step eventually takes one.
SpecPipeFair ==
  /\ PipeInit
  /\ [][PipeNext]_vars
  /\ WF_vars(UdpStep)
  /\ WF_vars(WriterStep)
  /\ WF_vars(StartStep)

(***************************************************************************)
(* A whole `capture` command: main, run_capture_cli and start() with the   *)
(* set-up of both threads (main.rs, capture.rs)                            *)
(***************************************************************************)
\* udp_receiver_thread before its loop: UdpSocket::bind(..).await? and
\* set_recv_buffer_size(..)?. On an error the thread returns it and its
\* Sender is dropped.
UdpSetup ==
  /\ udp_pc = "bind"
  /\ \E bound \in BOOLEAN :
       /\ udp_pc' = IF bound THEN "loop" ELSE "failed"
       /\ data_tx_alive' = (data_tx_alive /\ bound)
  /\ UNCHANGED <<wire_sent, packet_count, error_count, enqueued, recv_failed>>
  /\ UNCHANGED <<engineVars, streamVars, running, start_pc, session_dir,
                 queue, queue_at, data_rx_alive, writerVars, runVars,
                 codecVars, dirVars, toolVars>>

\* file_writer_thread before its loop: create_dir_all(&output_dir)? when
\* save_files, then frame_counter from find_next_frame_number when
\* save_files and 0 otherwise. On an error or a panic the thread ends and
\* its Receiver is dropped.
WriterSetup ==
  /\ writer_pc = "setup"
  /\ \E created \in (IF save_files THEN BOOLEAN ELSE {TRUE}),
        overflow_checks \in BOOLEAN :
       LET counter == IF save_files
                        THEN find_next_frame_number(session_dir, overflow_checks)
                        ELSE [tag |-> "Ok", value |-> U32(0)]
       IN IF ~created
            THEN /\ writer_pc' = "failed"
                 /\ data_rx_alive' = FALSE
                 /\ UNCHANGED frame_counter
          ELSE IF counter.tag = "Panic"
            THEN /\ writer_pc' = "panicked"
                 /\ data_rx_alive' = FALSE
                 /\ UNCHANGED frame_counter
          ELSE /\ writer_pc' = "loop"
               /\ frame_counter' = counter.value
               /\ UNCHANGED data_rx_alive
  /\ UNCHANGED <<engineVars, streamVars, running, start_pc, session_dir,
                 queue, queue_at, data_tx_alive, udpVars, buffer, buffer_at,
                 fed, dequeued, total_hwords_processed, files, runVars,
                 codecVars, dirVars, toolVars>>

\* run_capture_cli after start(): on Err it returns the error (eprintln!
\* writes to the standard error) and the process exits with a failure
\* code; on Ok it prints a line and the process exits with 0.
MainReturn ==
  /\ start_pc = "returned"
  /\ exit_code = None
  /\ IF start_result = Some("Ok")
       THEN /\ stdout' = Append(stdout, Text("Frame capture completed"))
            /\ exit_code' = Some(0)
       ELSE /\ exit_code' = Some(1)
            /\ UNCHANGED stdout
  /\ UNCHANGED <<engineVars, streamVars, running, start_pc, session_dir,
                 chanVars, udpVars, writerVars, save_files, live_output,
                 start_result, codecVars, dirVars, toolVars>>

\* The command `capture` (files) and `capture --live` (records on the
\* standard output), when start() has just spawned its threads.
RunInit ==
  /\ sync_engine = FrameSyncEngine_new
  /\ chunk_in = <<>>
  /\ returned = None
  /\ StreamStart
  /\ \E live \in BOOLEAN :
       PipeStartAt(<<>>, U32(0), "bind", "setup", ~live, live)
  /\ CodecStart
  /\ DirStart
  /\ ToolStart

RunNext ==
  \/ PipeNext
  \/ UdpSetup
  \/ WriterSetup
  \/ MainReturn

SpecRun == RunInit /\ [][RunNext]_vars

\* The command with every thread, and the main thread, scheduled again and
\* again. Nothing obliges the user to press Ctrl+C.
SpecRunFair ==
  /\ RunInit
  /\ [][RunNext]_vars
  /\ WF_vars(UdpStep \/ UdpSetup)
  /\ WF_vars(WriterStep \/ WriterSetup)
  /\ WF_vars(StartStep \/ MainReturn)

(***************************************************************************)
(* The HWORD codec called on its own (hword.rs)                            *)
(***************************************************************************)
Zero12 == [i \in 1..12 |-> 0]

\* The 12-byte inputs: every first byte (all control codes, both parity
\* values, every value of bits 91:88), over a payload of all zeros or all
\* ones with one byte of bits 87:80, 47:40 or 7:0 set to another value.
CodecInputs ==
  {[[i \in 1..12 |-> base] EXCEPT ![p] = v, ![1] = first] :
     first \in 0..255, base \in {0, 255}, p \in {2, 7, 12}, v \in {1, 128}}

\* The u8 values given to ControlBits::from_u8.
U8Inputs == 0..255

CodecInit ==
  /\ sync_engine = FrameSyncEngine_new
  /\ chunk_in = <<>>
  /\ returned = None
  /\ StreamStart
  /\ PipeStart
  /\ DirStart
  /\ parsed = None
  /\ reserialized = None
  /\ u8_out = None
  /\ \/ raw \in CodecInputs /\ u8_in = 0
     \/ raw = Zero12 /\ u8_in \in U8Inputs
  /\ ToolStart

\* HWord::from_bytes(&raw)
CallFromBytes ==
  /\ parsed = None
  /\ parsed' = Some(HWord_from_bytes(raw))
  /\ UNCHANGED <<engineVars, streamVars, pipeVars, raw, reserialized, u8_in,
                 u8_out, dirVars, toolVars>>

\* hword.to_bytes() on the HWord that from_bytes returned
CallToBytes ==
  /\ IsSome(parsed)
  /\ Unwrap(parsed).ok
  /\ reserialized = None
  /\ reserialized' = Some(HWord_to_bytes(Unwrap(parsed).hword))
  /\ UNCHANGED <<engineVars, streamVars, pipeVars, raw, parsed, u8_in, u8_out,
                 dirVars, toolVars>>

\* ControlBits::from_u8(u8_in)
CallFromU8 ==
  /\ u8_out = None
  /\ u8_out' = Some(ControlBits_from_u8(u8_in))
  /\ UNCHANGED <<engineVars, streamVars, pipeVars, raw, parsed, reserialized,
                 u8_in, dirVars, toolVars>>

CodecNext ==
  \/ CallFromBytes
  \/ CallToBytes
  \/ CallFromU8

SpecCodec == CodecInit /\ [][CodecNext]_vars

(***************************************************************************)
(* The directory scan at the start of file_writer_thread (capture.rs)      *)
(***************************************************************************)
\* The file names a session directory may hold: frame files 00000000.dsql,
\* 0000000A.dsql and FFFFFFFF.dsql, the file 0000000B_incomplete.dsql of a
\* frame cut by a shutdown, and readme.dsql, x.dsql and notes.txt.
DirNames ==
  {FrameFileName(U32(0)), FrameFileName(U32(10)), FrameFileName(U32_MAX),
   IncompleteFileName(U32(11)),
   <<"r", "e", "a", "d", "m", "e">> \o DotDsql,
   <<"x">> \o DotDsql,
   <<"n", "o", "t", "e", "s", ".", "t", "x", "t">>}

\* 00000000.dsql ... 0000000A.dsql, the directory a session of 11 frames
\* leaves.
ElevenFrames == [i \in 1..11 |-> FrameFileName(U32(i - 1))]

\* The listings read_dir may yield: up to MaxEntries different names of
\* DirNames in any order, and the eleven frame files in order.
Listings ==
  {s \in UNION {[1..n -> DirNames] : n \in 0..MaxEntries} :
     \A i, j \in 1..Len(s) : i /= j => s[i] /= s[j]}
  \cup {ElevenFrames}

DirInit ==
  /\ sync_engine = FrameSyncEngine_new
  /\ chunk_in = <<>>
  /\ returned = None
  /\ StreamStart
  /\ \E dir \in Listings : PipeStartWith(dir, U32(0))
  /\ CodecStart
  /\ DirStart
  /\ ToolStart

\* find_next_frame_number(&output_dir), in a build with or without overflow
\* checks.
Scan ==
  /\ scan_result = None
  /\ \E overflow_checks \in BOOLEAN :
       scan_result' = Some(find_next_frame_number(session_dir, overflow_checks))
  /\ UNCHANGED <<engineVars, streamVars, pipeVars, codecVars, toolVars>>

DirNext == Scan

SpecDir == DirInit /\ [][DirNext]_vars

(***************************************************************************)
(* The synthetic frame generator called on its own (capture.rs)            *)
(***************************************************************************)
\* The frame numbers of the generator's frame_counter that are tried.
SynthFrameNumbers ==
  {U32(0), U32(1), U32(2), U32(3), U32(255), U32(65536),
   [U32_MAX EXCEPT ![8] = 14], U32_MAX}

\* The HWORDs of a frame that are looked at: the two headers, the first
\* three points and the last one.
SynthIndexes == {0, 1, 2, 3, 4, points_per_frame + 1}

\* Values of the fixed-point conversion of a point: x_fixed and y_fixed
\* within 19 bits, z_fixed within 22 bits, intensity within 16 bits.
SynthPoints ==
  [x_fixed : {0, 1, 1024, 524287},
   y_fixed : {0, 2048, 262144},
   z_fixed : {0, 3072, 4194303},
   intensity : {0, 100, 65535}]

SynthInit ==
  /\ sync_engine = FrameSyncEngine_new
  /\ chunk_in = <<>>
  /\ returned = None
  /\ StreamStart
  /\ PipeStart
  /\ CodecStart
  /\ DirStart
  /\ DecodeStart
  /\ NameStart
  /\ TwinStart
  /\ synth_in \in [frame_number : SynthFrameNumbers, k : SynthIndexes,
                   p : SynthPoints]
  /\ synth_out = None

\* The HWORD number synth_in.k of generate_synthetic_frame(frame_number).
GenerateHWord ==
  /\ synth_out = None
  /\ synth_out' = Some(generate_synthetic_frame(synth_in.frame_number,
                                                synth_in.k, synth_in.p))
  /\ UNCHANGED <<engineVars, streamVars, pipeVars, codecVars, dirVars,
                 synth_in, decodeVars, nameVars, twinVars>>

SynthNext == GenerateHWord

SpecSynth == SynthInit /\ [][SynthNext]_vars

(***************************************************************************)
(* The frame decoder called on its own (frame.rs, coordinates.rs)          *)
(***************************************************************************)
\* A pixel HWORD as the instrument sends it: control code, the three 24-bit
\* lanes at bits 23:0, 47:24 and 71:48, 16 bits at 87:72, bits 91:88, and
\* the odd parity bit.
PixelHWord(control, px) ==
  LET body == <<control * 32 + px.flags,
                px.intensity \div 256, px.intensity % 256,
                px.z_lane \div 65536, (px.z_lane \div 256) % 256, px.z_lane % 256,
                px.y_lane \div 65536, (px.y_lane \div 256) % 256, px.y_lane % 256,
                px.x_lane \div 65536, (px.x_lane \div 256) % 256, px.x_lane % 256>>
  IN [body EXCEPT ![1] = @ + (IF count_ones(body) % 2 = 0 THEN 16 ELSE 0)]

\* The pixel payloads tried: raw 1024, 2048, 3072 with intensity 100; the
\* ends of the signed ranges; lanes whose reserved upper bits are set.
PixelSamples ==
  <<[x_lane |-> 1024, y_lane |-> 2048, z_lane |-> 3072,
     intensity |-> 100, flags |-> 0],
    [x_lane |-> 262144, y_lane |-> 524287, z_lane |-> 2097152,
     intensity |-> 4095, flags |-> 4],
    [x_lane |-> 524288 + 5, y_lane |-> 16777215, z_lane |-> 4194304 + 7,
     intensity |-> 65535, flags |-> 8],
    [x_lane |-> 262143, y_lane |-> 0, z_lane |-> 2097151,
     intensity |-> 0, flags |-> 12],
    [x_lane |-> 16252928, y_lane |-> 8388608 + 262144,
     z_lane |-> 12582912 + 2097152, intensity |-> 4096, flags |-> 3]>>

\* One HWORD of each control code.
HWordOfCode(code, sample) ==
  IF code \in {4, 5} THEN PixelHWord(code, PixelSamples[sample])
  ELSE IF code = 7 THEN IDLE_HWORD_PATTERN
  ELSE MkHWord(code, 0, 1, 0, 7)

RECURSIVE Flatten(_)
Flatten(chunks) ==
  IF chunks = <<>> THEN <<>> ELSE Head(chunks) \o Flatten(Tail(chunks))

\* The inputs of Frame::from_bytes: up to MaxFileHWords HWORDs of any
\* control codes in any order, and runs of up to MaxPixels pixels, each
\* followed by 0, 5 or 11 more bytes.
MaxFileHWords == 3

MaxPixels == 7

MixedFiles ==
  {Flatten([i \in 1..Len(codes) |-> HWordOfCode(codes[i], ((i - 1) % 5) + 1)]) :
     codes \in UNION {[1..n -> 0..7] : n \in 0..MaxFileHWords}}

PixelFiles ==
  {Flatten([i \in 1..n |-> PixelHWord(IF i = 1 THEN 4 ELSE 5,
                                      PixelSamples[((i - 1) % 5) + 1])]) :
     n \in 0..MaxPixels}

FileInputs ==
  {f \o SubSeq(IDLE_HWORD_PATTERN, 1, extra) :
     f \in MixedFiles \cup PixelFiles, extra \in {0, 5, 11}}

\* The arguments of Frame::data.
Decimations == {None, Some(0), Some(1), Some(2), Some(3)}

Whitelists ==
  {None, Some(<<>>), Some(<<"x", "y", "z">>),
   Some(<<"X", "intensity", "colour">>), Some(<<"gain", "overrange">>),
   Some(<<"over_range", "z">>)}

DecodeInit ==
  /\ sync_engine = FrameSyncEngine_new
  /\ chunk_in = <<>>
  /\ returned = None
  /\ StreamStart
  /\ PipeStart
  /\ CodecStart
  /\ DirStart
  /\ SynthStart
  /\ NameStart
  /\ TwinStart
  /\ file_bytes \in FileInputs
  /\ decimation = None
  /\ field_whitelist = None
  /\ decoded = None
  /\ points = None

\* A reader that decodes the whole HWORDs of its input and drops the rest.
CallFrameFromBytes_Truncating ==
  /\ decoded = None
  /\ decoded' =
       Some(Frame_from_bytes(U32(0),
              SubSeq(file_bytes, 1,
                     HWORD_SIZE_BYTES * (Len(file_bytes) \div HWORD_SIZE_BYTES))))
  /\ UNCHANGED <<engineVars, streamVars, pipeVars, codecVars, dirVars,
                 synthVars, file_bytes, decimation, field_whitelist, points,
                 nameVars, twinVars>>

\* Frame::from_bytes(0, &file_bytes)
CallFrameFromBytes ==
  /\ decoded = None
  /\ decoded' = Some(Frame_from_bytes(U32(0), file_bytes))
  /\ UNCHANGED <<engineVars, streamVars, pipeVars, codecVars, dirVars,
                 synthVars, file_bytes, decimation, field_whitelist, points,
                 nameVars, twinVars>>

\* frame.data(decimation, field_whitelist) on the frame from_bytes returned
CallData ==
  /\ IsSome(decoded)
  /\ Unwrap(decoded).tag = "Ok"
  /\ points = None
  /\ \E d \in Decimations, w \in Whitelists :
       /\ decimation' = d
       /\ field_whitelist' = w
       /\ points' = Some(Frame_data(Unwrap(decoded).frame, d, w))
  /\ UNCHANGED <<engineVars, streamVars, pipeVars, codecVars, dirVars,
                 synthVars, file_bytes, decoded, nameVars,
                 twinVars>>

DecodeNext ==
  \/ CallFrameFromBytes
  \/ CallData

SpecDecode == DecodeInit /\ [][DecodeNext]_vars

(***************************************************************************)
(* Naming a frame file and reading its number back (capture.rs, frame.rs)  *)
(***************************************************************************)
\* The frame counters tried: 0 .. 40, and the counters with all digits 0
\* or all digits F but one.
NameCounters ==
  {U32(n) : n \in 0..40} \cup {U32(255), U32(4096)}
  \cup {[U32_MAX EXCEPT ![k] = d] : k \in 1..8, d \in {0, 9, 10, 15}}
  \cup {[U32(0) EXCEPT ![k] = d] : k \in 1..8, d \in {1, 10, 15}}

\* File names that are not frame files of the writer.
OtherNames ==
  {<<"1", "2", "3">> \o DotDsql,
   <<"f", "r", "a", "m", "e", "_", "4", "2">> \o DotDsql,
   <<"a", "b", "c">> \o DotDsql,
   IncompleteFileName(U32(11))}

NameInit ==
  /\ sync_engine = FrameSyncEngine_new
  /\ chunk_in = <<>>
  /\ returned = None
  /\ StreamStart
  /\ PipeStart
  /\ CodecStart
  /\ DirStart
  /\ SynthStart
  /\ DecodeStart
  /\ TwinStart
  /\ number_out = None
  /\ \/ counter_in \in NameCounters /\ file_name = None
     \/ counter_in = U32(0) /\ file_name \in {Some(n) : n \in OtherNames}

\* file_writer_thread: the name of the file of frame counter_in
NameFile ==
  /\ file_name = None
  /\ file_name' = Some(FrameFileName(counter_in))
  /\ UNCHANGED <<engineVars, streamVars, pipeVars, codecVars, dirVars,
                 synthVars, decodeVars, counter_in, number_out,
                 twinVars>>

\* Frame::from_file: extract_frame_number_from_path(path)
ExtractNumber ==
  /\ IsSome(file_name)
  /\ number_out = None
  /\ number_out' = Some(extract_frame_number_from_path(Unwrap(file_name)))
  /\ UNCHANGED <<engineVars, streamVars, pipeVars, codecVars, dirVars,
                 synthVars, decodeVars, counter_in, file_name,
                 twinVars>>

NameNext ==
  \/ NameFile
  \/ ExtractNumber

SpecName == NameInit /\ [][NameNext]_vars

(***************************************************************************)
(* Reading a frame blob                                                    *)
(***************************************************************************)
\* The first HWORD of a byte blob.
FirstHWord(bytes) == SubSeq(bytes, 1, HWORD_SIZE_BYTES)

\* The control code of a 12-byte chunk, as HWord::from_bytes reads it.
ControlOf(chunk) == HWord_from_bytes(chunk).hword.control_bits

\* NUM_PIXELS_RW of a FirstHeader chunk (payload bits 47:32, 0 read as 1).
NumPixelsOf(chunk) == Unwrap(extract_num_pixels(HWord_from_bytes(chunk).hword))

\* The last call received the last pixel of a frame of the stream.
CycleEnded == cycles > 0 /\ pos = 0 /\ chunk_in /= <<>> /\ is_pixel(ControlOf(chunk_in))

(***************************************************************************)
(* C1: for a fresh engine and a stream Idle* followed by well-formed       *)
(* cycles, process_hword returns a frame exactly once per cycle, on the    *)
(* call that receives the cycle's last pixel, and sync_errors stays 0.     *)
(***************************************************************************)
C1_OneFramePerCycle ==
  disturbed = <<>> =>
    /\ IsSome(returned) <=> CycleEnded
    /\ sync_engine.frames_completed = (IF pos = 0 THEN cycles ELSE cycles - 1)
    /\ sync_engine.sync_errors = 0

C1_Witness ==
  /\ disturbed = <<>>
  /\ cycles = 2 /\ curN = 2 /\ CycleEnded
  /\ IsSome(returned)
  /\ sync_engine.frames_completed = 2

(***************************************************************************)
(* C2: every blob process_hword returns starts with an HWORD whose control *)
(* code is FirstHeader.                                                    *)
(***************************************************************************)
C2_BlobStartsWithFirstHeader ==
  IsSome(returned) =>
    /\ Len(Unwrap(returned)) >= HWORD_SIZE_BYTES
    /\ ControlOf(FirstHWord(Unwrap(returned))) = "FirstHeader"

C2_Witness ==
  /\ IsSome(returned)
  /\ disturbed /= <<>>
  /\ ControlOf(FirstHWord(Unwrap(returned))) = "FirstHeader"

(***************************************************************************)
(* C3: a FirstHeader that arrives in CollectingHeader truncates the        *)
(* unfinished frame: sync_errors increases by 1, the bytes collected so    *)
(* far are discarded and a new frame begins with that FirstHeader.         *)
(***************************************************************************)
C3_FirstHeaderInHeaderTruncates ==
  [][(sync_engine.state.tag = "CollectingHeader"
        /\ ControlOf(chunk_in') = "FirstHeader")
     => /\ sync_engine'.sync_errors = sync_engine.sync_errors + 1
        /\ sync_engine'.frame_buffer = chunk_in'
        /\ sync_engine'.state = [tag |-> "CollectingHeader", count |-> 1,
                                 last_index |-> Some(0)]]_vars

(***************************************************************************)
(* C4: after any disturbance, when the input continues with well-formed    *)
(* frames only, at most the first of them is lost: every later one is      *)
(* returned, as its own bytes, by the call that receives its last pixel.   *)
(***************************************************************************)
C4_ResyncAfterOneFrame ==
  (clean >= 2 /\ CycleEnded) => returned = Some(WellFormedFrame(curN, cycles))

(***************************************************************************)
(* C5: in CollectingPixels, expected_pixels is the NUM_PIXELS_RW value of  *)
(* the FirstHeader that is the first HWORD of the frame buffer.            *)
(***************************************************************************)
C5_ExpectedMatchesFirstHeader ==
  sync_engine.state.tag = "CollectingPixels" =>
    sync_engine.state.expected_pixels
      = NumPixelsOf(FirstHWord(sync_engine.frame_buffer))

(***************************************************************************)
(* C6: every blob process_hword returns is 12 x (110 + N) bytes long, N    *)
(* being the NUM_PIXELS_RW value of the blob's first HWORD.                *)
(***************************************************************************)
C6_BlobLength ==
  IsSome(returned) =>
    Len(Unwrap(returned))
      = HWORD_SIZE_BYTES * (HEADER_HWORDS_PER_FRAME
                            + NumPixelsOf(FirstHWord(Unwrap(returned))))

(***************************************************************************)
(* C7: in an otherwise well-formed frame, one SubsequentHeader whose index *)
(* is replaced by a non-contiguous value still lets the frame complete and *)
(* be emitted after its N pixels, and header_index_errors counts the       *)
(* replaced header and, when a header follows it, that header too.         *)
(***************************************************************************)
\* The stream deviates once: the index of one SubsequentHeader of the first
\* frame is replaced.
OneIndexGap ==
  /\ Len(disturbed) = 1
  /\ disturbed[1].kind = "index"
  /\ disturbed[1].at < HEADER_HWORDS_PER_FRAME

\* The last pixel of the first frame has been received.
FirstFrameSent == cycles > 1 \/ (cycles = 1 /\ pos = 0)

\* The bytes without their k-th HWORD.
WithoutHWord(bytes, k) ==
  SubSeq(bytes, 1, HWORD_SIZE_BYTES * (k - 1))
    \o SubSeq(bytes, HWORD_SIZE_BYTES * k + 1, Len(bytes))

\* The call that received the last pixel of the first frame returned the
\* frame as it was sent, replaced header included.
FirstFrameEmitted ==
  (cycles = 1 /\ pos = 0) =>
    /\ IsSome(returned)
    /\ LET blob == Unwrap(returned)
           k == disturbed[1].at + 1
           hword == HWord_from_bytes(
                      SubSeq(blob, HWORD_SIZE_BYTES * (k - 1) + 1,
                             HWORD_SIZE_BYTES * k)).hword
       IN /\ Len(blob) = HWORD_SIZE_BYTES * (HEADER_HWORDS_PER_FRAME + curN)
          /\ WithoutHWord(blob, k) = WithoutHWord(WellFormedFrame(curN, 1), k)
          /\ hword.control_bits = "SubsequentHeader"
          /\ Unwrap(extract_header_index(hword)) /= (k - 1) % 16

\* The claim as stated: exactly one header_index_error.
C7_OneError ==
  (OneIndexGap /\ FirstFrameSent) =>
    /\ sync_engine.header_index_errors = 1
    /\ sync_engine.frames_completed >= 1
    /\ FirstFrameEmitted

\* The claim as amended: two errors, one when the replaced header is the
\* 110th.
C7_GapCountedAtBothEnds ==
  (OneIndexGap /\ FirstFrameSent) =>
    /\ sync_engine.header_index_errors
         = (IF disturbed[1].at + 1 = HEADER_HWORDS_PER_FRAME THEN 1 ELSE 2)
    /\ sync_engine.frames_completed >= 1
    /\ FirstFrameEmitted

C7_Witness ==
  /\ OneIndexGap /\ disturbed[1].at = 49
  /\ cycles = 1 /\ pos = 0
  /\ IsSome(returned)
  /\ sync_engine.header_index_errors = 2

(***************************************************************************)
(* C8: a FirstHeader h received in CollectingPixels returns no frame,      *)
(* adds 1 to sync_errors, leaves frames_completed, makes the frame buffer  *)
(* the 12 bytes of h and the state CollectingHeader{count=1,last_index=0}. *)
(***************************************************************************)
C8_LostTail ==
  [][(sync_engine.state.tag = "CollectingPixels"
        /\ ControlOf(chunk_in') = "FirstHeader")
     => /\ returned' = None
        /\ sync_engine'.sync_errors = sync_engine.sync_errors + 1
        /\ sync_engine'.frames_completed = sync_engine.frames_completed
        /\ sync_engine'.frame_buffer = chunk_in'
        /\ Len(sync_engine'.frame_buffer) = HWORD_SIZE_BYTES
        /\ sync_engine'.state = [tag |-> "CollectingHeader", count |-> 1,
                                 last_index |-> Some(0)]]_vars

C8_Witness ==
  /\ Len(disturbed) = 1
  /\ disturbed[1].kind = "truncate"
  /\ disturbed[1].at = HEADER_HWORDS_PER_FRAME + 1
  /\ pos = 1
  /\ sync_engine.sync_errors = 1
  /\ sync_engine.state.tag = "CollectingHeader"
  /\ sync_engine.frame_buffer = chunk_in

(***************************************************************************)
(* C9: right after a call that returns a frame the engine has released it: *)
(* current_buffer() is empty and the state is WaitingForFrame.             *)
(***************************************************************************)
C9_BufferReleased ==
  IsSome(returned) =>
    /\ current_buffer(sync_engine) = <<>>
    /\ sync_engine.state.tag = "WaitingForFrame"

(***************************************************************************)
(* C10: once both workers have terminated after the run flag was cleared,  *)
(* the queue is empty: every packet the receiver enqueued was dequeued and *)
(* given to the sync engine before the writer exited.                      *)
(***************************************************************************)
C10_QueueDrainedAtExit ==
  (udp_pc = "done" /\ writer_pc = "done" /\ ~running) =>
    /\ queue = <<>>
    /\ dequeued = enqueued

(***************************************************************************)
(* C11: once the run flag is false, with every thread scheduled fairly,    *)
(* the receiver and the writer both end and start() returns after it has   *)
(* joined both, whatever was queued or in the engine when the flag fell.   *)
(***************************************************************************)
Terminated ==
  /\ udp_pc = "done"
  /\ writer_pc \in {"done", "panicked"}
  /\ start_pc = "returned"

C11_Termination == (~running) ~> Terminated

C11_Witness ==
  /\ ~running
  /\ Terminated
  /\ dequeued >= 1
  /\ queue /= <<>>
  /\ sync_engine.state.tag = "CollectingPixels"

(***************************************************************************)
(* C12: the queue never holds more packets than its capacity, and          *)
(* try_send on a full queue does not block: the packet is dropped, the     *)
(* receiver's error count grows by exactly one and the receiver goes back  *)
(* to the head of its loop for the next datagram.                          *)
(***************************************************************************)
C12_BoundedQueue ==
  /\ [](Len(queue) <= QueueCap)
  /\ [][(udp_pc = "recv" /\ packet_count' = packet_count + 1
          /\ Len(queue) = QueueCap)
        => (/\ queue' = queue
            /\ enqueued' = enqueued
            /\ error_count' = error_count + 1
            /\ udp_pc' = "loop")]_vars

C12_Witness ==
  /\ Len(queue) = QueueCap
  /\ data_rx_alive
  /\ recv_failed = 0
  /\ packet_count = enqueued + 1
  /\ error_count = 1
  /\ udp_pc = "loop"

(***************************************************************************)
(* C13: while the writer has dequeued nothing (and has not exited) and no  *)
(* recv has failed, a burst of B > QueueCap datagrams leaves exactly       *)
(* QueueCap packets queued and an error count of B - QueueCap.             *)
(***************************************************************************)
C13_BurstDrops ==
  (dequeued = 0 /\ data_rx_alive /\ recv_failed = 0 /\ packet_count > QueueCap)
    => /\ Len(queue) = QueueCap
       /\ enqueued = QueueCap
       /\ error_count = packet_count - QueueCap

C13_Witness ==
  /\ dequeued = 0
  /\ data_rx_alive
  /\ recv_failed = 0
  /\ packet_count = QueueCap + 2
  /\ Len(queue) = QueueCap
  /\ error_count = 2

(***************************************************************************)
(* C14: as long as no packet was dropped, the chunks given to              *)
(* process_hword are the consecutive 12-byte slices of the byte stream,    *)
(* however it was cut into datagrams: the t-th chunk is bytes 12(t-1) ..   *)
(* 12t - 1 of the stream, the scratch buffer holds the bytes that follow   *)
(* it, the queue the bytes after those, and fewer than 12 bytes are left   *)
(* in the scratch buffer once a packet has been handled (the writer is no  *)
(* longer inside its drain loop, which a panic of the frame counter, see   *)
(* C16, leaves half-way).                                                  *)
(***************************************************************************)
NoDrop == enqueued = packet_count

\* The segments are consecutive bytes of the wire stream from offset `at`.
RECURSIVE ContiguousFrom(_, _)
ContiguousFrom(segments, at) ==
  \/ segments = <<>>
  \/ /\ Head(segments)[1] = at
     /\ ContiguousFrom(Tail(segments), at + Head(segments)[2])

C14_ChunksAreStreamSlices ==
  NoDrop =>
    LET consumed == HWORD_SIZE_BYTES * total_hwords_processed
        before == consumed - HWORD_SIZE_BYTES * Len(fed)
    IN /\ \A k \in 1..Len(fed) :
            /\ fed[k].at = before + HWORD_SIZE_BYTES * (k - 1)
            /\ fed[k].chunk = [i \in 1..HWORD_SIZE_BYTES |->
                                 WireByte(fed[k].at + i)]
       /\ ContiguousFrom(buffer_at, consumed)
       /\ IF queue = <<>> THEN wire_sent = consumed + Len(buffer)
          ELSE queue_at[1] = consumed + Len(buffer)
       /\ writer_pc \notin {"drain", "panicked"} =>
            Len(buffer) < HWORD_SIZE_BYTES

C14_Witness ==
  /\ NoDrop
  /\ packet_count = 2
  /\ dequeued = 2
  /\ wire_sent = HWORD_SIZE_BYTES
  /\ total_hwords_processed = 1
  /\ chunk_in = IDLE_HWORD_PATTERN
  /\ buffer = <<>>

(***************************************************************************)
(* C15: every chunk given to process_hword starts on an HWORD boundary of  *)
(* the stream the instrument sent (its first byte is at an offset that is  *)
(* a multiple of 12), also when packets were dropped on a full queue.      *)
(***************************************************************************)
C15_ChunksAligned ==
  \A k \in 1..Len(fed) : fed[k].at % HWORD_SIZE_BYTES = 0

(***************************************************************************)
(* C16: in one run of the writer the frame counter is the resume number    *)
(* plus the number of frames the engine has emitted, the k-th complete     *)
(* frame file is named by resume number + k - 1, and so the complete-frame *)
(* files are numbered strictly increasing and no name is used twice.       *)
(***************************************************************************)
\* a + n as a u32, None when it is above u32::MAX.
RECURSIVE u32_plus(_, _)
u32_plus(a, n) ==
  IF n = 0 THEN Some(a)
  ELSE IF a = U32_MAX THEN None
  ELSE u32_plus(u32_wrapping_add1(a), n - 1)

\* The complete-frame files written so far, in order.
CompleteFiles == SelectSeq(files, LAMBDA f : ~ends_with(f.name, IncompleteSuffix \o DotDsql))

ResumeNumber == find_next_frame_number(session_dir, TRUE).value

C16_FrameNumbering ==
  LET emitted == sync_engine.frames_completed IN
  /\ IsSome(u32_plus(ResumeNumber, emitted))
  /\ frame_counter = Unwrap(u32_plus(ResumeNumber, emitted))
  /\ Len(CompleteFiles) = emitted
  /\ \A k \in 1..Len(CompleteFiles) :
       CompleteFiles[k].name = FrameFileName(Unwrap(u32_plus(ResumeNumber, k - 1)))
  /\ \A j, k \in 1..Len(CompleteFiles) :
       j < k => u32_lt(Unwrap(from_str_radix_16(SubSeq(CompleteFiles[j].name, 1, 8))),
                       Unwrap(from_str_radix_16(SubSeq(CompleteFiles[k].name, 1, 8))))

(***************************************************************************)
(* C17: find_next_frame_number returns 0 for a directory without .dsql     *)
(* files and otherwise the largest frame number among the names made of 8  *)
(* hexadecimal digits and ".dsql", plus 1 (0000000B for 00000000.dsql ..   *)
(* 0000000A.dsql).                                                         *)
(***************************************************************************)
\* name is 8 hexadecimal digits followed by ".dsql".
IsFrameFileName(name) ==
  /\ Len(name) = 8 + Len(DotDsql)
  /\ ends_with(name, DotDsql)
  /\ \A i \in 1..8 : IsSome(to_digit_16(name[i]))

\* The frame numbers of the frame files of a listing.
FrameNumbersIn(dir) ==
  {Unwrap(from_str_radix_16(SubSeq(dir[i], 1, 8))) :
     i \in {j \in 1..Len(dir) : IsFrameFileName(dir[j])}}

C17_ResumeNumber ==
  IsSome(scan_result) =>
    LET r == Unwrap(scan_result)
        numbers == FrameNumbersIn(session_dir)
    IN /\ (\A i \in 1..Len(session_dir) : ~ends_with(session_dir[i], DotDsql))
            => r.tag = "Ok" /\ r.value = U32(0)
       /\ numbers /= {} =>
            \E m \in numbers :
              /\ \A k \in numbers : u32_ge(m, k)
              /\ r.tag = "Ok"
              /\ u32_lt(m, r.value)
              /\ r.value = u32_wrapping_add1(m)

(***************************************************************************)
(* C18: every file the writer writes, a complete frame or the              *)
(* `_incomplete` file at shutdown, has a length that is a multiple of 12,  *)
(* and Frame::from_bytes on its content does not fail with                 *)
(* InvalidFileFormat.                                                      *)
(***************************************************************************)
C18_FilesDecode ==
  [][\A k \in (Len(files) + 1)..Len(files') :
       /\ Len(files'[k].data) % HWORD_SIZE_BYTES = 0
       /\ Frame_from_bytes(U32(0), files'[k].data).tag /= "InvalidFileFormat"]_vars

C18_Witness ==
  /\ writer_pc = "done"
  /\ Len(files) = 2
  /\ IsFrameFileName(files[1].name)
  /\ ends_with(files[2].name, IncompleteSuffix \o DotDsql)
  /\ Len(files[2].data) < Len(files[1].data)

(***************************************************************************)
(* C19: for every 12-byte input, whatever its control code, parity bit and *)
(* payload, HWord::from_bytes succeeds and HWord::to_bytes of the result   *)
(* gives the input back.                                                   *)
(***************************************************************************)
C19_RoundTrip ==
  /\ IsSome(parsed) => Unwrap(parsed).ok
  /\ IsSome(reserialized) => Unwrap(reserialized) = raw

C19_Witness ==
  /\ IsSome(reserialized)
  /\ Unwrap(reserialized) = raw
  /\ raw[1] = 223
  /\ raw[2] = 128
  /\ Unwrap(parsed).hword.control_bits = "Reserved6"
  /\ Unwrap(parsed).hword.parity
  /\ Unwrap(parsed).hword.remaining_bits = 15

(***************************************************************************)
(* C20: ControlBits::from_u8(v) returns the tag whose number is v for v in *)
(* 0 .. 7 and None for every v above 7 (for example 0b1000).               *)
(***************************************************************************)
C20_FromU8 ==
  IsSome(u8_out) =>
    LET out == Unwrap(u8_out) IN
    IF u8_in <= 7
      THEN IsSome(out) /\ ControlBits_as_u8(Unwrap(out)) = u8_in
      ELSE out = None

(***************************************************************************)
(* C21: every HWORD of a frame made by generate_synthetic_frame, the       *)
(* FirstHeader, the SubsequentHeader and each pixel HWORD, for every frame *)
(* number, has odd parity over its 96 bits: HWord::verify_parity is true.  *)
(***************************************************************************)
C21_SyntheticParity ==
  IsSome(synth_out) =>
    /\ HWord_from_bytes(Unwrap(synth_out)).ok
    /\ verify_parity(HWord_from_bytes(Unwrap(synth_out)).hword)

(***************************************************************************)
(* C22: the pixel count the sync engine reads from the FirstHeader of a    *)
(* synthetic frame (NUM_PIXELS_RW, payload bits 47:32) is the number of    *)
(* pixel HWORDs generate_synthetic_frame puts in the frame, 122000.        *)
(***************************************************************************)
C22_SyntheticPixelCount ==
  (IsSome(synth_out) /\ synth_in.k = 0) =>
    extract_num_pixels(HWord_from_bytes(Unwrap(synth_out)).hword)
      = Some(points_per_frame)

(***************************************************************************)
(* C23: Frame::from_bytes returns InvalidFileFormat, and no frame, exactly *)
(* when the length of its input is not a multiple of 12; for an input of   *)
(* any control codes in any order whose length is a multiple of 12 it      *)
(* returns a frame whose header list holds header HWORDs only and whose    *)
(* pixel list holds pixel HWORDs only.                                     *)
(***************************************************************************)
C23_FromBytesErrors ==
  IsSome(decoded) =>
    LET r == Unwrap(decoded) IN
    IF Len(file_bytes) % HWORD_SIZE_BYTES /= 0
      THEN r.tag = "InvalidFileFormat" /\ "frame" \notin DOMAIN r
      ELSE /\ r.tag = "Ok"
           /\ \A i \in 1..Len(r.frame.header.hwords) :
                r.frame.header.hwords[i].control_bits
                  \in {"FirstHeader", "SubsequentHeader"}
           /\ \A i \in 1..Len(r.frame.pixels.hwords) :
                r.frame.pixels.hwords[i].control_bits
                  \in {"FirstPixel", "SubsequentPixel"}

C23_Witness ==
  /\ Len(file_bytes) = 3 * HWORD_SIZE_BYTES
  /\ IsSome(decoded)
  /\ Unwrap(decoded).tag = "Ok"
  /\ Len(Unwrap(decoded).frame.header.hwords) = 1
  /\ Len(Unwrap(decoded).frame.pixels.hwords) = 1

(***************************************************************************)
(* C24: for a frame of L pixel HWORDs and decimation k, Frame::data        *)
(* returns ceil(L / k) points when k >= 1 and L points when k = 0, and its *)
(* i-th point (from 0) is the decoding of source pixel i * k (k = 0 as     *)
(* k = 1): stride selection from index 0.                                  *)
(***************************************************************************)
\* The stride of Frame::data for its decimation argument.
StrideOf(d) == IF IsSome(d) /\ Unwrap(d) >= 1 THEN Unwrap(d) ELSE 1

\* The whitelist of Frame::data for its field_whitelist argument.
WhitelistOf(w) == IF IsSome(w) THEN FieldWhitelist_new(Unwrap(w)) ELSE FieldWhitelist_all

C24_Decimation ==
  IsSome(points) =>
    LET source == Unwrap(decoded).frame.pixels.hwords
        L == Len(source)
        k == StrideOf(decimation)
        got == Unwrap(points)
    IN /\ Len(got) = (L + k - 1) \div k
       /\ \A i \in 0..(Len(got) - 1) :
            Some(got[i + 1]) =
              extract_coordinates_from_hword(source[i * k + 1],
                                             WhitelistOf(field_whitelist))

C24_Witness ==
  /\ IsSome(points)
  /\ Len(Unwrap(decoded).frame.pixels.hwords) = 7
  /\ decimation = Some(3)
  /\ Len(Unwrap(points)) = 3

(***************************************************************************)
(* C25: in every point Frame::data returns, each of the fields x, y, z,    *)
(* intensity, gain, over_range is present exactly when the whitelist names *)
(* it; without a whitelist all six are present; and the number of points   *)
(* does not depend on the whitelist.                                       *)
(***************************************************************************)
\* The names of each field of a point.
FieldNames ==
  [x |-> {"x"}, y |-> {"y"}, z |-> {"z"}, intensity |-> {"intensity"},
   gain |-> {"gain"}, over_range |-> {"over_range", "overrange"}]

\* The whitelist argument names the field f, whatever the case of letters.
Named(f, w) ==
  \/ ~IsSome(w)
  \/ \E i \in 1..Len(Unwrap(w)) : to_lowercase(Unwrap(w)[i]) \in FieldNames[f]

C25_Whitelist ==
  IsSome(points) =>
    /\ \A i \in 1..Len(Unwrap(points)) :
         \A f \in DOMAIN FieldNames :
           IsSome(Unwrap(points)[i][f]) <=> Named(f, field_whitelist)
    /\ Len(Unwrap(points))
         = Len(Frame_data(Unwrap(decoded).frame, decimation, None))

C25_Witness ==
  /\ IsSome(points)
  /\ field_whitelist = Some(<<"X", "intensity", "colour">>)
  /\ Len(Unwrap(points)) = 2
  /\ IsSome(Unwrap(points)[2].x)
  /\ IsSome(Unwrap(points)[2].intensity)
  /\ ~IsSome(Unwrap(points)[2].y)
  /\ ~IsSome(Unwrap(points)[2].gain)

(***************************************************************************)
(* C26: the integer divided by 1024 for x (y) is the two's-complement      *)
(* value of the low 19 bits of the 24-bit lane at payload bits 23:0        *)
(* (47:24), in [-2^18, 2^18), and for z that of the low 22 bits of the     *)
(* lane at bits 71:48, in [-2^21, 2^21); the upper bits of a lane have no  *)
(* influence. A raw value r in the lane decodes to r / 1024: raw 1024,     *)
(* 2048 and 3072 give 1.0, 2.0 and 3.0.                                    *)
(***************************************************************************)
\* The 24-bit lane of a pixel HWORD whose lowest byte is data byte `low`.
LaneOf(hword, low) ==
  hword.data[low] + 256 * hword.data[low + 1] + 65536 * hword.data[low + 2]

\* The two's-complement value of the low `bits` bits of a lane.
TwosComplement(lane, bits) ==
  LET low == lane % (2 ^ bits) IN
  IF low >= 2 ^ (bits - 1) THEN low - 2 ^ bits ELSE low

C26_FixedPoint ==
  IsSome(points) =>
    LET source == Unwrap(decoded).frame.pixels.hwords
        k == StrideOf(decimation)
    IN \A i \in 1..Len(Unwrap(points)) :
         LET point == Unwrap(points)[i]
             hword == source[(i - 1) * k + 1]
         IN /\ IsSome(point.x) =>
                 /\ Unwrap(point.x) = [num |-> TwosComplement(LaneOf(hword, 1), 19),
                                       den |-> 1024]
                 /\ Unwrap(point.x).num \in (-262144)..262143
                 /\ LaneOf(hword, 1) = 1024 => Unwrap(point.x).num = 1 * 1024
            /\ IsSome(point.y) =>
                 /\ Unwrap(point.y) = [num |-> TwosComplement(LaneOf(hword, 4), 19),
                                       den |-> 1024]
                 /\ Unwrap(point.y).num \in (-262144)..262143
                 /\ LaneOf(hword, 4) = 2048 => Unwrap(point.y).num = 2 * 1024
            /\ IsSome(point.z) =>
                 /\ Unwrap(point.z) = [num |-> TwosComplement(LaneOf(hword, 7), 22),
                                       den |-> 1024]
                 /\ Unwrap(point.z).num \in (-2097152)..2097151
                 /\ LaneOf(hword, 7) = 3072 => Unwrap(point.z).num = 3 * 1024

C26_Witness ==
  /\ IsSome(points)
  /\ ~IsSome(field_whitelist)
  /\ Len(Unwrap(points)) = 3
  /\ Unwrap(points)[1].x = Some([num |-> 1024, den |-> 1024])
  /\ Unwrap(points)[1].y = Some([num |-> 2048, den |-> 1024])
  /\ Unwrap(points)[1].z = Some([num |-> 3072, den |-> 1024])
  /\ Unwrap(points)[2].x = Some([num |-> -262144, den |-> 1024])
  /\ Unwrap(points)[2].z = Some([num |-> -2097152, den |-> 1024])
  /\ LaneOf(Unwrap(decoded).frame.pixels.hwords[3], 1) = 524288 + 5
  /\ Unwrap(points)[3].x = Some([num |-> 5, den |-> 1024])
  /\ Unwrap(points)[3].y = Some([num |-> -1, den |-> 1024])

(***************************************************************************)
(* C28: for every frame counter c of the u32 range, the name the writer    *)
(* gives to the file of frame c (8 upper-case hexadecimal digits and       *)
(* ".dsql") is read back as c by the frame-number extraction of            *)
(* Frame::from_file (00000007.dsql gives 7, 000000FF.dsql gives 255).      *)
(***************************************************************************)
C28_NameRoundTrip ==
  (IsSome(number_out) /\ file_name = Some(FrameFileName(counter_in))) =>
    /\ Len(Unwrap(file_name)) = 8 + Len(DotDsql)
    /\ Unwrap(number_out) = [tag |-> "Ok", value |-> counter_in]

C28_Witness ==
  /\ counter_in = U32(255)
  /\ file_name = Some(<<"0", "0", "0", "0", "0", "0", "F", "F">> \o DotDsql)
  /\ number_out = Some([tag |-> "Ok", value |-> counter_in])

IsRecord(w1, w2) ==
  /\ w1.kind = "bytes" /\ w2.kind = "bytes"
  /\ Len(w1.bytes) = 4
  /\ w1.bytes[1] + 256 * w1.bytes[2] + 65536 * w1.bytes[3]
       + 16777216 * w1.bytes[4] = Len(w2.bytes)

C29_StdoutOnlyRecords ==
  live_output =>
    /\ Len(stdout) % 2 = 0
    /\ \A k \in 1..(Len(stdout) \div 2) : IsRecord(stdout[2 * k - 1], stdout[2 * k])

(***************************************************************************)
(* C30: when either worker ends with an error (the receiver cannot bind    *)
(* its socket; the writer cannot create the output directory or a write to *)
(* the standard output fails), the other worker eventually terminates and  *)
(* start() returns an error, whether or not the run flag is ever cleared.  *)
(***************************************************************************)
C30_ErrorEndsCapture ==
  (udp_pc = "failed" \/ writer_pc = "failed")
    ~> (/\ udp_pc \in {"done", "failed"}
        /\ writer_pc \in {"done", "failed", "panicked"}
        /\ start_pc = "returned"
        /\ start_result = Some("Err"))

(***************************************************************************)
(* The sync engine on any sequence of HWORDs (frame_sync.rs), next to a    *)
(* second engine that is given the same sequence without its HWORDs of     *)
(* control code Idle                                                       *)
(***************************************************************************)
\* process_hword calls of one such sequence.
MaxCalls == 6

\* The HWORDs of those sequences: the Idle pattern and another HWORD of
\* control code Idle, FirstHeaders announcing 1 and 2 pixels, a
\* SubsequentHeader whose index follows 0 and one whose index does not,
\* both kinds of pixel, and the three reserved control codes.
AnyHWords ==
  {IDLE_HWORD_PATTERN, IdleOther,
   MkHWord(2, 0, 1, 0, 1), MkHWord(2, 0, 2, 0, 2),
   MkHWord(3, 1, 0, 0, 3), MkHWord(3, 5, 0, 0, 4),
   MkHWord(4, 0, 0, 1, 5), MkHWord(5, 0, 0, 2, 6),
   MkHWord(0, 0, 0, 0, 7), MkHWord(1, 0, 0, 0, 8), MkHWord(6, 0, 0, 0, 9)}

\* The control code of a chunk, bits 95:93.
ControlCode(chunk) == (chunk[1] \div 32) % 8

AnyInit ==
  /\ sync_engine = FrameSyncEngine_new
  /\ chunk_in = <<>>
  /\ returned = None
  /\ StreamStart
  /\ PipeStart
  /\ CodecStart
  /\ DirStart
  /\ ToolStart

\* One call of process_hword on any HWORD; the second engine gets the same
\* call unless the HWORD has control code Idle.
FeedAny ==
  /\ calls < MaxCalls
  /\ calls' = calls + 1
  /\ UNCHANGED <<streamVars, pipeVars, codecVars, dirVars, synthVars,
                 decodeVars, nameVars>>
  /\ \E chunk \in AnyHWords :
       /\ chunk_in' = chunk
       /\ \E r \in {process_hword(sync_engine, chunk)} :
            /\ sync_engine' = r.e
            /\ returned' = r.ret
       /\ IF ControlCode(chunk) = 7
            THEN UNCHANGED <<twin_engine, twin_in, twin_returned>>
            ELSE /\ twin_in' = chunk
                 /\ \E t \in {process_hword(twin_engine, chunk)} :
                      /\ twin_engine' = t.e
                      /\ twin_returned' = t.ret

AnyNext == FeedAny

SpecAny == AnyInit /\ [][AnyNext]_vars

(***************************************************************************)
(* The sync engine on well-formed cycles, next to a second engine that is  *)
(* given the same HWORDs with other values in the header index fields      *)
(***************************************************************************)
\* Frames of one such stream.
MaxIndexCycles == 2

\* The values given to a header index field besides the scripted one.
IndexValues == {0, 7, 15}

\* The chunk with the value i in its header index field (bits 87:84).
WithIndex(chunk, i) == [chunk EXCEPT ![2] = i * 16 + (@ % 16)]

IndexInit ==
  /\ sync_engine = FrameSyncEngine_new
  /\ chunk_in = <<>>
  /\ returned = None
  /\ StreamStart
  /\ PipeStart
  /\ CodecStart
  /\ DirStart
  /\ ToolStart

\* Both engines get the chunk, the second one with the index value i.
CallBoth(chunk, i) ==
  /\ chunk_in' = chunk
  /\ twin_in' = WithIndex(chunk, i)
  /\ \E r \in {process_hword(sync_engine, chunk)} :
       /\ sync_engine' = r.e
       /\ returned' = r.ret
  /\ \E t \in {process_hword(twin_engine, WithIndex(chunk, i))} :
       /\ twin_engine' = t.e
       /\ twin_returned' = t.ret
  /\ UNCHANGED <<calls, pipeVars, codecVars, dirVars, synthVars, decodeVars,
                 nameVars>>

\* The FirstHeader of a frame.
IndexStartFrame ==
  /\ pos = 0 /\ cycles < MaxIndexCycles
  /\ \E n \in PixelCounts(cycles + 1), i \in IndexValues :
       /\ CallBoth(WellFormedHWord(n, 1, cycles + 1), i)
       /\ curN' = n
  /\ cycles' = cycles + 1
  /\ pos' = 1
  /\ UNCHANGED <<idles, disturbed, clean>>

\* The next HWORD of the frame; the second engine gets another index value
\* in the 2nd, 50th, 52nd and 110th header.
IndexFeed ==
  /\ pos > 0
  /\ \E i \in (IF pos < HEADER_HWORDS_PER_FRAME /\ DisturbAt(pos)
                 THEN IndexValues \cup {Scripted[2] \div 16}
                 ELSE {Scripted[2] \div 16}) :
       CallBoth(Scripted, i)
  /\ pos' = IF pos + 1 = HEADER_HWORDS_PER_FRAME + curN THEN 0 ELSE pos + 1
  /\ UNCHANGED <<idles, cycles, curN, disturbed, clean>>

IndexNext ==
  \/ IndexStartFrame
  \/ IndexFeed

SpecIndex == IndexInit /\ [][IndexNext]_vars

(***************************************************************************)
(* C31: on the well-formed streams (Idle* then well-formed cycles) each    *)
(* blob process_hword returns is, byte for byte, the 110 + N HWORDs of     *)
(* that cycle in arrival order: no Idle HWORD, no byte of another cycle,   *)
(* nothing reordered or duplicated.                                        *)
(***************************************************************************)
\* The k-th HWORD (from 1) of a blob.
HWordAt(blob, k) ==
  SubSeq(blob, HWORD_SIZE_BYTES * (k - 1) + 1, HWORD_SIZE_BYTES * k)

C31_BlobIsTheCycle ==
  (disturbed = <<>> /\ IsSome(returned)) =>
    LET blob == Unwrap(returned) IN
    /\ Len(blob) = HWORD_SIZE_BYTES * (HEADER_HWORDS_PER_FRAME + curN)
    /\ \A k \in 1..(HEADER_HWORDS_PER_FRAME + curN) :
         /\ HWordAt(blob, k) = WellFormedHWord(curN, k, cycles)
         /\ HWordAt(blob, k) /= IDLE_HWORD_PATTERN
         /\ (HWordAt(blob, k)[1] \div 32) % 8 /= 7

C31_Witness ==
  /\ disturbed = <<>>
  /\ cycles = 3 /\ curN = 1
  /\ sync_engine.frames_completed = 3
  /\ returned = Some(WellFormedFrame(1, 3))

(***************************************************************************)
(* C33: sync_errors changes only on a call that receives a FirstHeader     *)
(* while a frame is in progress; no Idle, Reserved0/1/6, pixel or          *)
(* SubsequentHeader HWORD changes it in any state, and HWord::from_bytes   *)
(* accepts every control code, so the parse-failure increment is never     *)
(* taken.                                                                  *)
(***************************************************************************)
C33_SyncErrorsOnlyOnTruncation ==
  [][calls' /= calls =>
       /\ HWord_from_bytes(chunk_in').ok
       /\ sync_engine'.sync_errors /= sync_engine.sync_errors =>
            /\ ControlCode(chunk_in') = 2
            /\ sync_engine.state.tag \in {"CollectingHeader", "CollectingPixels"}
            /\ sync_engine'.sync_errors = sync_engine.sync_errors + 1
       /\ ControlCode(chunk_in') /= 2 =>
            sync_engine'.sync_errors = sync_engine.sync_errors]_vars

C33_Witness ==
  /\ sync_engine.sync_errors = 1
  /\ ControlCode(chunk_in) = 2
  /\ calls = 3
  /\ sync_engine.state = [tag |-> "CollectingHeader", count |-> 1,
                          last_index |-> Some(0)]

(***************************************************************************)
(* C34: for any sequence of 12-byte inputs, every blob process_hword       *)
(* returns holds exactly N pixel HWORDs, N being the pixel count its       *)
(* FirstHeader announces, and is returned by the call that appends the     *)
(* N-th pixel; also when the first pixel comes before 110 headers, and     *)
(* when N = 1.                                                             *)
(***************************************************************************)
\* The HWORDs of a blob whose control code is one of `codes`.
CountCodes(blob, codes) ==
  Cardinality({k \in 1..(Len(blob) \div HWORD_SIZE_BYTES) :
                 ControlCode(HWordAt(blob, k)) \in codes})

C34_ExactlyNPixels ==
  IsSome(returned) =>
    CountCodes(Unwrap(returned), {4, 5}) = NumPixelsOf(HWordAt(Unwrap(returned), 1))

(***************************************************************************)
(* C35: in WaitingForSync the engine leaves the state only on the exact    *)
(* Idle pattern (to WaitingForFrame, buffer unchanged) or on a FirstHeader,*)
(* which is replayed: after that one call the state is                     *)
(* CollectingHeader{count=1, last_index=0} and the buffer is that HWORD.   *)
(* Every other HWORD, also one of control code 111 with another payload,   *)
(* leaves state, buffer and counters unchanged. The engine never returns   *)
(* to WaitingForSync.                                                      *)
(***************************************************************************)
C35_ColdStart ==
  [][calls' /= calls =>
       /\ sync_engine.state.tag = "WaitingForSync" =>
            /\ returned' = None
            /\ stats(sync_engine') = stats(sync_engine)
            /\ IF chunk_in' = IDLE_HWORD_PATTERN
                 THEN sync_engine' =
                        [sync_engine EXCEPT !.state = [tag |-> "WaitingForFrame"]]
               ELSE IF ControlCode(chunk_in') = 2
                 THEN /\ sync_engine'.state =
                           [tag |-> "CollectingHeader", count |-> 1,
                            last_index |-> Some(0)]
                      /\ sync_engine'.frame_buffer = chunk_in'
               ELSE sync_engine' = sync_engine
       /\ sync_engine.state.tag /= "WaitingForSync" =>
            sync_engine'.state.tag /= "WaitingForSync"]_vars

C35_Witness ==
  /\ calls = 1
  /\ ControlCode(chunk_in) = 2
  /\ sync_engine.state = [tag |-> "CollectingHeader", count |-> 1,
                          last_index |-> Some(0)]
  /\ sync_engine.frame_buffer = chunk_in
  /\ sync_engine.frames_completed = 0

(***************************************************************************)
(* C36: HWORDs of control code Idle are transparent: for any input         *)
(* sequence, with or without Idle HWORDs at any positions, process_hword   *)
(* returns the same blobs in the same order (none on an Idle HWORD) and    *)
(* frames_completed, sync_errors and header_index_errors are the same.     *)
(***************************************************************************)
C36_IdleTransparent ==
  calls > 0 =>
    /\ IF ControlCode(chunk_in) = 7 THEN returned = None
       ELSE returned = twin_returned
    /\ stats(sync_engine) = stats(twin_engine)
    /\ sync_engine.frame_buffer = twin_engine.frame_buffer

C36_Witness ==
  /\ chunk_in = IDLE_HWORD_PATTERN
  /\ twin_in /= <<>>
  /\ ControlCode(twin_in) = 5
  /\ sync_engine.state.tag = "CollectingPixels"
  /\ sync_engine.state = twin_engine.state
  /\ Len(sync_engine.frame_buffer) = 2 * HWORD_SIZE_BYTES
  /\ calls = 3

(***************************************************************************)
(* C37: for any input sequence and every blob process_hword returns,       *)
(* Frame::from_bytes on the blob gives as many header HWORDs as the blob   *)
(* holds and num_pixels() equal to the number of pixel HWORDs of the blob: *)
(* the decoder skips no HWORD the engine took into the frame.              *)
(***************************************************************************)
C37_DecoderAgrees ==
  IsSome(returned) =>
    LET r == Frame_from_bytes(U32(0), Unwrap(returned)) IN
    /\ r.tag = "Ok"
    /\ Len(r.frame.header.hwords) = CountCodes(Unwrap(returned), {2, 3})
    /\ num_pixels(r.frame) = CountCodes(Unwrap(returned), {4, 5})

(***************************************************************************)
(* C32: header index gaps never abort a frame: on a stream of FirstHeader, *)
(* 109 SubsequentHeader and N pixels, whether and when a frame is          *)
(* returned, its bytes (but for the index fields themselves),              *)
(* frames_completed and sync_errors are the same whatever the values of    *)
(* the header index fields; only header_index_errors may differ.           *)
(***************************************************************************)
\* The byte strings a and b are equal but for bits 87:84 of their HWORDs.
SameButIndex(a, b) ==
  /\ Len(a) = Len(b)
  /\ \A j \in 1..Len(a) :
       IF j % HWORD_SIZE_BYTES = 2 THEN a[j] % 16 = b[j] % 16 ELSE a[j] = b[j]

C32_IndexGapsHarmless ==
  /\ IsSome(twin_returned) <=> IsSome(returned)
  /\ IsSome(twin_returned) <=> CycleEnded
  /\ IsSome(twin_returned) =>
       /\ SameButIndex(Unwrap(twin_returned), Unwrap(returned))
       /\ Len(Unwrap(twin_returned))
            = HWORD_SIZE_BYTES * (HEADER_HWORDS_PER_FRAME + curN)
  /\ twin_engine.frames_completed = sync_engine.frames_completed
  /\ twin_engine.sync_errors = sync_engine.sync_errors
  /\ twin_engine.sync_errors = 0
  /\ twin_engine.state.tag = sync_engine.state.tag
  /\ SameButIndex(twin_engine.frame_buffer, sync_engine.frame_buffer)

C32_Witness ==
  /\ cycles = 2
  /\ IsSome(twin_returned)
  /\ twin_returned /= returned
  /\ twin_engine.header_index_errors >= 4
  /\ sync_engine.header_index_errors = 0
  /\ twin_engine.frames_completed = 2

(***************************************************************************)
(* C38: at shutdown the writer writes an `_incomplete` file only for a     *)
(* frame still being collected: its content is never the bytes of a frame  *)
(* already written as a complete frame, and when the last HWORD processed  *)
(* completed a frame no `_incomplete` file is written.                     *)
(***************************************************************************)
\* The file is one written under an `_incomplete` name.
IsIncompleteFile(f) ==
  \E c \in {frame_counter} : f.name = IncompleteFileName(c)

C38_IncompleteOnlyForOpenFrame ==
  writer_pc = "done" =>
    \A k \in 1..Len(files) :
      IsIncompleteFile(files[k]) =>
        /\ \A j \in 1..Len(files) :
             ~IsIncompleteFile(files[j]) => files[j].data /= files[k].data
        /\ ~IsSome(returned)

====
